---------------------------- MODULE OutboxProofs ----------------------------
(***************************************************************************)
(* The launch synchronisation implements the outbox, on every phone: each  *)
(* of its steps is a step of Outbox, or none; what it drops from a queue   *)
(* the server has applied; a launch puts one copy of a note on the server; *)
(* a row shows what the note it names was given; and merging an answer     *)
(* into the rows a phone starts with goes by the text.                     *)
(***************************************************************************)
EXTENDS MCLaunchSync, LaunchSyncProofs

\* The mapped variables.
Ready   == IF uid = NoAccount THEN {"delete", "edit"} ELSE Kind
Open    == {r.idx : r \in InFlight}
Carried == {r.idx : r \in {q \in InFlight : q.done}}
outbox  == <<queue, Ready, phase, Open, Carried, indicesToRemove>>

---------------------------------------------------------------------------
(* What a removal leaves.                                                  *)

\* remove(atOffsets:) leaves the array without the offsets, in order.
LEMMA RemovalIsWithout ==
  ASSUME NEW S, NEW s \in Seq(S), NEW I, NEW t, t = removeAtOffsets(s, I)
  PROVE  Promise!IsWithout(t, s, I)
<1> DEFINE K == Kept(s, I)
           at == [i \in DOMAIN t |-> Nth(K, i)]
<1>1. /\ K \in SUBSET (DOMAIN s) /\ K \in SUBSET Nat
      /\ IsFiniteSet(K) /\ Cardinality(K) \in Nat
  BY KeptIsFinite
<1>2. /\ Len(t) = Cardinality(K) /\ DOMAIN t = 1..Len(t)
      /\ \A k \in 1..Len(t) : Nth(K, k) \in K
      /\ \A k \in 1..Len(t) : t[k] = s[Nth(K, k)]
  BY RemovalIsArray
<1>3. K = DOMAIN s \ I
  BY DEF Kept
<1>4. at \in [DOMAIN t -> DOMAIN s \ I]
  BY <1>2, <1>3
<1>5. \A i \in DOMAIN t : t[i] = s[at[i]]
  BY <1>2
<1>6. \A i, j \in DOMAIN t : i < j => at[i] < at[j]
  BY <1>2, RemovalKeepsOrder
<1>7. \A n \in DOMAIN s \ I : \E i \in DOMAIN t : at[i] = n
  <2> TAKE n \in DOMAIN s \ I
  <2>1. Rank(K, n) \in 1..Cardinality(K) /\ Nth(K, Rank(K, n)) = n
    BY <1>1, <1>3, NthOfRank
  <2> QED
    BY <1>2, <2>1
<1> HIDE DEF at, K
<1> QED
  BY <1>4, <1>5, <1>6, <1>7 DEF Promise!IsWithout

---------------------------------------------------------------------------
(* Whose turn it is.                                                       *)

\* After the new notes nobody's.
LEMMA TurnEnds ==
  ASSUME NEW q \in Queues
  PROVE  Promise!Turn(q, "post") = "none"
  BY DEF Promise!Turn, KindsLater

LEMMA TurnOfPosts ==
  ASSUME NEW q \in Queues
  PROVE  Promise!Turn(q, "edit") =
           IF uid # NoAccount /\ q.post # <<>> THEN "post" ELSE "none"
<1> DEFINE due == {r \in KindsLater["edit"] \cap Ready : q[r] # <<>>}
<1>1. due = IF uid # NoAccount /\ q.post # <<>> THEN {"post"} ELSE {}
  BY DEF KindsLater, Ready, Kind, Queues
<1>2. Promise!Turn(q, "edit") =
        IF due = {} THEN "none" ELSE CHOOSE r \in due : due \subseteq {r} \cup KindsLater[r]
  BY DEF Promise!Turn, Ready
<1> HIDE DEF due
<1>3. CASE uid # NoAccount /\ q.post # <<>>
  BY <1>1, <1>2, <1>3
<1>4. CASE ~ (uid # NoAccount /\ q.post # <<>>)
  BY <1>1, <1>2, <1>4
<1> QED
  BY <1>3, <1>4

LEMMA TurnOfEdits ==
  ASSUME NEW q \in Queues
  PROVE  Promise!Turn(q, "delete") =
           IF q.edit # <<>> THEN "edit" ELSE Promise!Turn(q, "edit")
<1> DEFINE due(k) == {r \in KindsLater[k] \cap Ready : q[r] # <<>>}
<1>1. /\ due("edit") \subseteq {"post"}
      /\ due("delete") = (IF q.edit # <<>> THEN {"edit"} ELSE {}) \cup due("edit")
      /\ KindsLater["edit"] = {"post"} /\ KindsLater["post"] = {}
  BY DEF KindsLater, Ready, Kind, Queues
<1>2. \A k : Promise!Turn(q, k) =
        IF due(k) = {} THEN "none"
        ELSE CHOOSE r \in due(k) : due(k) \subseteq {r} \cup KindsLater[r]
  BY DEF Promise!Turn, Ready
<1> HIDE DEF due
<1>3. CASE q.edit # <<>>
  <2> DEFINE D == due("delete")
  <2>1. "edit" \in D /\ D \subseteq {"edit"} \cup KindsLater["edit"]
    BY <1>1, <1>3
  <2>2. \A r \in D : D \subseteq {r} \cup KindsLater[r] => r = "edit"
    BY <1>1, <1>3
  <2>3. (CHOOSE r \in D : D \subseteq {r} \cup KindsLater[r]) = "edit"
    <3> HIDE DEF D
    <3> QED
      BY <2>1, <2>2
  <2> QED
    BY <1>2, <1>3, <2>1, <2>3
<1>4. CASE q.edit = <<>>
  <2>1. due("delete") = due("edit")
    BY <1>1, <1>4
  <2> QED
    BY <1>2, <1>4, <2>1
<1> QED
  BY <1>3, <1>4

LEMMA TurnOfDeletes ==
  ASSUME NEW q \in Queues
  PROVE  Promise!Turn(q, "none") =
           IF q.delete # <<>> THEN "delete" ELSE Promise!Turn(q, "delete")
<1> DEFINE due(k) == {r \in KindsLater[k] \cap Ready : q[r] # <<>>}
<1>1. /\ due("delete") \subseteq {"edit", "post"}
      /\ due("none") = (IF q.delete # <<>> THEN {"delete"} ELSE {}) \cup due("delete")
      /\ KindsLater["delete"] = {"edit", "post"}
      /\ KindsLater["edit"] = {"post"} /\ KindsLater["post"] = {}
  BY DEF KindsLater, Ready, Kind, Queues
<1>2. \A k : Promise!Turn(q, k) =
        IF due(k) = {} THEN "none"
        ELSE CHOOSE r \in due(k) : due(k) \subseteq {r} \cup KindsLater[r]
  BY DEF Promise!Turn, Ready
<1> HIDE DEF due
<1>3. CASE q.delete # <<>>
  <2> DEFINE D == due("none")
  <2>1. "delete" \in D /\ D \subseteq {"delete"} \cup KindsLater["delete"]
    BY <1>1, <1>3
  <2>2. \A r \in D : D \subseteq {r} \cup KindsLater[r] => r = "delete"
    BY <1>1, <1>3
  <2>3. (CHOOSE r \in D : D \subseteq {r} \cup KindsLater[r]) = "delete"
    <3> HIDE DEF D
    <3> QED
      BY <2>1, <2>2
  <2> QED
    BY <1>2, <1>3, <2>1, <2>3
<1>4. CASE q.delete = <<>>
  <2>1. due("none") = due("delete")
    BY <1>1, <1>4
  <2> QED
    BY <1>2, <1>4, <2>1
<1> QED
  BY <1>3, <1>4

---------------------------------------------------------------------------
(* How a round begins.                                                     *)

\* A drain opens every position of its box.
LEMMA DrainBegins ==
  ASSUME InFlight = {}, NEW q \in Queues, NEW kind \in Kind, Drain(kind, q[kind])
  PROVE  Promise!Begin(kind, q)
<1> DEFINE s == q[kind]
           rq(i) == NewRequest("launch", 0, i, kind, s[i])
           R == {rq(i) : i \in DOMAIN s}
<1>1. net' = net \cup R /\ phase' = kind /\ indicesToRemove' = {}
  BY DEF Drain
<1>2. \A i \in DOMAIN s : /\ rq(i).by = "launch" /\ rq(i).op = kind
                          /\ rq(i).idx = i /\ rq(i).done = FALSE
  BY DEF NewRequest
<1> HIDE DEF rq
<1>3. InFlight' = R
  BY <1>1, <1>2 DEF InFlight
<1>4. Open' = DOMAIN s /\ Carried' = {}
  BY <1>2, <1>3 DEF Open, Carried
<1>5. kind # "none"
  BY DEF Kind
<1> QED
  BY <1>1, <1>4, <1>5 DEF Promise!Begin, Open, Carried

\* Without a drain nothing is open.
LEMMA RestBegins ==
  ASSUME Idle, InFlight' = {}, NEW q
  PROVE  Promise!Begin("none", q)
<1>1. Open' = {} /\ Carried' = {} /\ phase' = "none" /\ indicesToRemove' = {}
  BY DEF Open, Carried, Idle
<1> QED
  BY <1>1 DEF Promise!Begin, Open, Carried

LEMMA PostsBegin ==
  ASSUME InFlight = {}, NEW q \in Queues, postPendingUserNotes(q)
  PROVE  Promise!Begin(Promise!Turn(q, "edit"), q)
<1>1. CASE uid = NoAccount /\ Idle /\ UNCHANGED net
  <2>1. InFlight' = {}
    BY <1>1 DEF InFlight
  <2> QED
    BY <1>1, <2>1, RestBegins, TurnOfPosts
<1>2. CASE /\ q.post = <<>> /\ Idle
           /\ net' = net \cup {NewRequest("launch", 0, 1, "fetch", NoArg)}
  <2>1. InFlight' = {}
    BY <1>2 DEF InFlight, NewRequest, Kind
  <2> QED
    BY <1>2, <2>1, RestBegins, TurnOfPosts
<1>3. CASE uid # NoAccount /\ q.post # <<>> /\ Drain("post", q.post)
  <2>1. Promise!Begin("post", q)
    BY <1>3, DrainBegins DEF Kind
  <2> QED
    BY <1>3, <2>1, TurnOfPosts
<1> QED
  BY <1>1, <1>2, <1>3 DEF postPendingUserNotes

LEMMA EditsBegin ==
  ASSUME InFlight = {}, NEW q \in Queues, postEditedPendingData(q)
  PROVE  Promise!Begin(Promise!Turn(q, "delete"), q)
<1>1. CASE q.edit = <<>>
  BY <1>1, PostsBegin, TurnOfEdits DEF postEditedPendingData
<1>2. CASE q.edit # <<>>
  <2>1. Promise!Begin("edit", q)
    BY <1>2, DrainBegins DEF postEditedPendingData, Kind
  <2> QED
    BY <1>2, <2>1, TurnOfEdits
<1> QED
  BY <1>1, <1>2

LEMMA DeletesBegin ==
  ASSUME InFlight = {}, NEW q \in Queues, postDeletePendingData(q)
  PROVE  Promise!Begin(Promise!Turn(q, "none"), q)
<1>1. CASE q.delete = <<>>
  BY <1>1, EditsBegin, TurnOfDeletes DEF postDeletePendingData
<1>2. CASE q.delete # <<>>
  <2>1. Promise!Begin("delete", q)
    BY <1>2, DrainBegins DEF postDeletePendingData, Kind
  <2> QED
    BY <1>2, <2>1, TurnOfDeletes
<1> QED
  BY <1>1, <1>2

---------------------------------------------------------------------------
(* Every step is a step of the outbox.                                     *)

LEMMA LaunchStarts == IInv /\ Launch => Promise!Start
<1> SUFFICES ASSUME IInv, Launch PROVE Promise!Start
  OBVIOUS
<1>1. InFlight = {} /\ phase = "none" /\ queue \in Queues
  BY DEF IInv, LaunchInv, Launch, InFlight, DeviceTypeOK
<1>2. /\ postDeletePendingData(queue) /\ UNCHANGED <<queue, uid>>
  BY DEF Launch, storeVars
<1>3. PICK q \in Queues : q = queue
  BY <1>1
<1>4. postDeletePendingData(q)
  BY <1>2, <1>3 DEF postDeletePendingData, postEditedPendingData, postPendingUserNotes
<1>5. Promise!Begin(Promise!Turn(q, "none"), q)
  BY <1>1, <1>4, DeletesBegin
<1>6. Promise!Begin(Promise!Turn(queue, "none"), queue)
  <2>1. Promise!Turn(queue, "none") = Promise!Turn(q, "none")
    BY <1>3 DEF Promise!Turn
  <2> DEFINE T == Promise!Turn(q, "none")
  <2>2. Promise!Begin(T, queue)
    <3> HIDE DEF T
    <3>1. Promise!Begin(T, q) => Promise!Begin(T, queue)
      BY <1>3 DEF Promise!Begin
    <3> QED
      BY <1>5, <3>1 DEF T
  <2> QED
    BY <2>1, <2>2
<1>7. UNCHANGED <<queue, Ready>>
  BY <1>2 DEF Ready
<1> QED
  BY <1>1, <1>6, <1>7 DEF Promise!Start, Ready

\* The notify block settles the round and begins the next in one step.
LEMMA NotifyFinishes == IInv /\ Notify => Promise!Finish
<1> SUFFICES ASSUME IInv, Notify PROVE Promise!Finish
  OBVIOUS
<1>1. phase \in Kind /\ group = 0 /\ queue' = Written /\ UNCHANGED uid
  BY DEF Notify, NotifyDeletes, NotifyEdits, NotifyPosts, Kind
<1>2. InFlight = {} /\ Written \in Queues
  BY <1>1, NotifyWrites DEF IInv
<1>3. Open = {}
  BY <1>2 DEF Open
<1>4. phase # "none"
  BY <1>1 DEF Kind
<1>5. queue \in Queues /\ snapshot = queue[phase] /\ queue[phase] \in Seq(Entry)
  BY <1>1, QueueOfKind DEF IInv, LaunchInv, Captured, DeviceTypeOK, ChainOK
<1>6. /\ queue'[phase] = removeAtOffsets(queue[phase], indicesToRemove)
      /\ \A k \in Kind \ {phase} : queue'[k] = queue[k]
  BY <1>1, <1>5 DEF Written, Queues, Kind
<1>7. Promise!IsWithout(queue'[phase], queue[phase], indicesToRemove)
  BY <1>5, <1>6, RemovalIsWithout
<1>8. PICK q \in Queues : q = queue' /\ q = Written
  BY <1>1, <1>2
<1>9. Promise!Begin(Promise!Turn(q, phase), q)
  <2>1. CASE NotifyDeletes
    <3>1. postEditedPendingData(q) /\ phase = "delete"
      BY <1>8, <2>1 DEF NotifyDeletes, postEditedPendingData, postPendingUserNotes
    <3> QED
      BY <1>2, <3>1, EditsBegin
  <2>2. CASE NotifyEdits
    <3>1. postPendingUserNotes(q) /\ phase = "edit"
      BY <1>8, <2>2 DEF NotifyEdits, postPendingUserNotes
    <3> QED
      BY <1>2, <3>1, PostsBegin
  <2>3. CASE NotifyPosts
    <3>1. Idle /\ UNCHANGED net /\ phase = "post"
      BY <2>3 DEF NotifyPosts
    <3>2. InFlight' = {}
      BY <1>2, <3>1 DEF InFlight
    <3> QED
      BY <3>1, <3>2, RestBegins, TurnEnds
  <2> QED
    BY <2>1, <2>2, <2>3 DEF Notify
<1>10. UNCHANGED Ready
  BY <1>1 DEF Ready
<1>11. Promise!Begin(Promise!Turn(queue', phase), queue')
  <2>1. Promise!Turn(queue', phase) = Promise!Turn(q, phase)
    BY <1>8 DEF Promise!Turn
  <2> DEFINE T == Promise!Turn(q, phase)
  <2>2. Promise!Begin(T, queue')
    <3> HIDE DEF T
    <3>1. Promise!Begin(T, q) => Promise!Begin(T, queue')
      BY <1>8 DEF Promise!Begin
    <3> QED
      BY <1>9, <3>1 DEF T
  <2> QED
    BY <2>1, <2>2
<1> QED
  BY <1>3, <1>4, <1>6, <1>7, <1>10, <1>11 DEF Promise!Finish, Open, Ready

\* A completion handler closes the position of its request.
LEMMA HandlerSettles ==
  ASSUME IInv, NEW r \in InFlight, net' = net \ {r}, UNCHANGED <<queue, uid, phase>>,
         \/ UNCHANGED indicesToRemove
         \/ r.done /\ indicesToRemove' = indicesToRemove \cup {r.idx}
  PROVE  \E i \in Open : Promise!Settle(i)
<1>1. InFlight' = InFlight \ {r}
  BY DEF InFlight
<1>2. \A s \in InFlight : s.idx = r.idx => s = r
  BY DEF IInv, LaunchInv, ChainOK, OneEach
<1>3. r.idx \in Open /\ Open' = Open \ {r.idx} /\ Carried' = Carried \ {r.idx}
  BY <1>1, <1>2 DEF Open, Carried
<1>4. r.done => r.idx \in Carried
  BY DEF Carried
<1>5. UNCHANGED Ready
  BY DEF Ready
<1>6. Promise!Settle(r.idx)
  BY <1>3, <1>4, <1>5 DEF Promise!Settle, Open, Carried, Ready
<1> QED
  BY <1>3, <1>6

\* A step that leaves the drain alone is no step of the outbox.
LEMMA NoBusiness ==
  ASSUME InFlight' = InFlight, UNCHANGED <<queue, uid, phase, indicesToRemove>>
  PROVE  UNCHANGED outbox
  BY DEF outbox, Open, Carried, Ready

\* The server carries a request out.
LEMMA ServerCarries ==
  ASSUME IInv, ServerStep, UNCHANGED chainVars
  PROVE  (\E i \in Open : Promise!Carry(i)) \/ UNCHANGED outbox
<1>1. PICK r \in net : \E id, rows : Answer(r, id, rows)
  BY DEF ServerStep, ServerAddsNote, ServerEditsNote, ServerDeletesNote, ServerListsNotes,
     ServerDeletesUser, ServerRegisters
<1>2. PICK id, rows : Answer(r, id, rows)
  BY <1>1
<1> DEFINE t == [r EXCEPT !.done = TRUE, !.id = id, !.rows = rows]
<1>3. r \in Request
  BY DEF IInv, LaunchInv, NetOK
<1>4. t.by = r.by /\ t.op = r.op /\ t.idx = r.idx /\ t.done = TRUE
  BY <1>3 DEF Request
<1>5. /\ net' = (net \ {r}) \cup {t}
      /\ UNCHANGED <<queue, uid, phase, indicesToRemove>>
  BY <1>2 DEF Answer, storeVars, chainVars
<1> HIDE DEF t
<1>6. CASE r \in InFlight
  <2>1. InFlight' = (InFlight \ {r}) \cup {t}
    BY <1>4, <1>5, <1>6 DEF InFlight
  <2>2. Open' = Open /\ r.idx \in Open
    BY <1>4, <1>6, <2>1 DEF Open
  <2>3. Carried' = Carried \cup {r.idx}
    BY <1>4, <1>6, <2>1 DEF Carried
  <2>4. UNCHANGED Ready
    BY <1>5 DEF Ready
  <2>5. Promise!Carry(r.idx)
    BY <1>5, <2>2, <2>3, <2>4 DEF Promise!Carry, Open, Carried, Ready
  <2> QED
    BY <2>2, <2>5
<1>7. CASE r \notin InFlight
  <2>1. InFlight' = InFlight
    BY <1>4, <1>5, <1>7 DEF InFlight
  <2> QED
    BY <1>5, <2>1, NoBusiness
<1> QED
  BY <1>6, <1>7

LEMMA StepImplements ==
  IInv /\ [Next]_launchVars => Promise!Next \/ UNCHANGED outbox
<1> SUFFICES ASSUME IInv, [Next]_launchVars PROVE Promise!Next \/ UNCHANGED outbox
  OBVIOUS
<1>1. CASE Launch
  BY <1>1, LaunchStarts DEF Promise!Next
<1>2. CASE Notify
  BY <1>2, NotifyFinishes DEF Promise!Next
<1>3. ASSUME NEW r \in net, LaunchRequestSucceeds(r) \/ LaunchRequestFails(r)
      PROVE  Promise!Next
  <2>1. \E i \in Open : Promise!Settle(i)
    BY <1>3, HandlerSettles
    DEF LaunchRequestSucceeds, LaunchRequestFails, Waiting, InFlight, Delivered, storeVars
  <2> QED
    BY <2>1 DEF Promise!Next, Open
<1>4. ASSUME NEW r \in net, FetchSucceeds(r) \/ FetchFails(r) PROVE UNCHANGED outbox
  <2>1. InFlight' = InFlight
    BY <1>4 DEF FetchSucceeds, FetchFails, Fetching, InFlight, Kind
  <2> QED
    BY <1>4, <2>1, NoBusiness DEF FetchSucceeds, FetchFails, chainVars, storeVars
<1>5. CASE ServerStep /\ UNCHANGED chainVars
  BY <1>5, ServerCarries DEF Promise!Next, Open
<1>6. CASE Kill
  <2>1. InFlight' = {} /\ Idle /\ UNCHANGED <<queue, uid>>
    BY <1>6 DEF Kill, ProcessEnds, InFlight, storeVars
  <2>2. Open' = {} /\ Carried' = {} /\ UNCHANGED Ready
    BY <2>1 DEF Open, Carried, Ready
  <2>3. Promise!Crash
    BY <2>1, <2>2 DEF Promise!Crash, Promise!Begin, Idle, Open, Carried, Ready
  <2> QED
    BY <2>3 DEF Promise!Next
<1>7. CASE Flip
  <2>1. InFlight' = InFlight /\ UNCHANGED <<queue, uid, phase, indicesToRemove>>
    BY <1>7 DEF Flip, NetworkChanges, InFlight, storeVars, chainVars
  <2> QED
    BY <2>1, NoBusiness
<1>8. CASE UNCHANGED launchVars
  <2>1. InFlight' = InFlight /\ UNCHANGED <<queue, uid, phase, indicesToRemove>>
    BY <1>8 DEF launchVars, deviceVars, storeVars, chainVars, InFlight
  <2> QED
    BY <2>1, NoBusiness
<1> QED
  BY <1>1, <1>2, <1>3, <1>4, <1>5, <1>6, <1>7, <1>8 DEF Next, LaunchStep

\* On every phone, whatever waits in the queues and in whatever order requests
\* are carried out, answered, lost and cut off by a kill, the chain does what
\* the outbox promises.
THEOREM LaunchImplementsOutbox == Spec => ImplementsOutbox
<1>1. Init => Promise!Init
  <2> SUFFICES ASSUME Init PROVE Promise!Init
    OBVIOUS
  <2>1. InFlight = {} /\ Open = {} /\ Carried = {}
    BY DEF Init, InFlight, Open, Carried
  <2>2. \A k \in Kind : queue[k] \in Seq(Entry)
    BY QueueOfKind DEF Init, DeviceTypeOK
  <2>3. Ready \subseteq Kind
    BY DEF Ready, Kind
  <2> QED
    BY <2>1, <2>2, <2>3 DEF Init, Promise!Init, Open, Carried, Ready
<1>2. IInv /\ [Next]_launchVars => [Promise!Next]_(Promise!outboxVars)
  BY StepImplements DEF outbox, Open, Carried, Ready, Promise!outboxVars
<1> QED
  BY <1>1, <1>2, InvariantHolds, PTL DEF Spec, ImplementsOutbox, Promise!Spec

---------------------------------------------------------------------------
(* What is dropped was carried out.                                        *)

\* Nothing is in flight but the drain's requests and the fetch; a new note is
\* sent for an account.
OwnRequests ==
  \A r \in net : /\ r.by = "launch" /\ r.op \in Kind \cup {"fetch"}
                 /\ r.op = "post" => r.owner \in Account

\* What was answered, or will be, has been applied and stays so.
AppliedInv ==
  /\ NotesApart /\ OwnRequests
  /\ phase \in Kind => \A i \in indicesToRemove : Applied(phase, snapshot[i])
  /\ \A r \in InFlight : r.done => Applied(phase, r.arg)

\* What the server applied depends on its notes and the edits that wait.
LEMMA AppliedStays ==
  ASSUME UNCHANGED <<server, queue>>, NEW k, NEW entry, Applied(k, entry)
  PROVE  Applied(k, entry)'
  BY DEF Applied, OnServer, TextOnServer

\* Whichever drain starts, or none, nothing of it is done yet.
LEMMA NothingDone ==
  ASSUME OwnRequests, InFlight = {}, uid \in Account \cup {NoAccount}, NEW q \in Queues,
         \/ postDeletePendingData(q) \/ postEditedPendingData(q) \/ postPendingUserNotes(q)
         \/ Idle /\ UNCHANGED net
  PROVE  /\ OwnRequests' /\ indicesToRemove' = {}
         /\ \A r \in InFlight' : ~r.done
<1>1. ASSUME NEW kind \in Kind, Drain(kind, q[kind]), kind = "post" => uid # NoAccount
      PROVE  /\ OwnRequests' /\ indicesToRemove' = {}
             /\ \A r \in InFlight' : ~r.done
  <2> DEFINE rq(i) == NewRequest("launch", 0, i, kind, q[kind][i])
  <2>1. net' = net \cup {rq(i) : i \in DOMAIN q[kind]} /\ indicesToRemove' = {}
    BY <1>1 DEF Drain
  <2>2. \A i : rq(i).by = "launch" /\ rq(i).op = kind /\ rq(i).owner = uid /\ ~rq(i).done
    BY DEF NewRequest
  <2> HIDE DEF rq
  <2>3. \A r \in net' : r \in net \/ (r.by = "launch" /\ r.op = kind /\ r.owner = uid /\ ~r.done)
    BY <2>1, <2>2
  <2>4. OwnRequests'
    BY <1>1, <2>3 DEF OwnRequests
  <2>5. \A r \in InFlight' : ~r.done
    BY <2>3 DEF InFlight
  <2> QED
    BY <2>1, <2>4, <2>5
<1>2. CASE Idle /\ UNCHANGED net
  BY <1>2 DEF Idle, OwnRequests, InFlight
<1>3. CASE Idle /\ net' = net \cup {NewRequest("launch", 0, 1, "fetch", NoArg)}
  <2> DEFINE t == NewRequest("launch", 0, 1, "fetch", NoArg)
  <2>1. t.by = "launch" /\ t.op = "fetch" /\ "fetch" \notin Kind /\ "fetch" # "post"
    BY DEF NewRequest, Kind
  <2> HIDE DEF t
  <2>2. net' = net \cup {t} /\ indicesToRemove' = {}
    BY <1>3 DEF t, Idle
  <2> QED
    BY <2>1, <2>2 DEF OwnRequests, InFlight
<1> QED
  BY <1>1, <1>2, <1>3
     DEF postDeletePendingData, postEditedPendingData, postPendingUserNotes, Kind

\* A step that leaves the server alone, and only takes requests away.
LEMMA AnswerKeepsApplied ==
  ASSUME IInv, AppliedInv, net' \subseteq net,
         UNCHANGED <<server, nextID, queue, phase, snapshot>>,
         \/ UNCHANGED indicesToRemove
         \/ \E r \in InFlight : r.done /\ indicesToRemove' = indicesToRemove \cup {r.idx}
  PROVE  AppliedInv'
<1>1. NotesApart' /\ OwnRequests' /\ InFlight' \subseteq InFlight
  BY DEF AppliedInv, NotesApart, OwnRequests, InFlight
<1>2. \A r \in InFlight : r.arg = snapshot[r.idx] /\ r.op = phase
  BY DEF IInv, LaunchInv, ChainOK, Barrier
<1>3. phase \in Kind => \A i \in indicesToRemove' : Applied(phase, snapshot[i])
  BY <1>2 DEF AppliedInv
<1>4. phase' = phase /\ snapshot' = snapshot
  OBVIOUS
<1>5. phase' \in Kind => \A i \in indicesToRemove' : Applied(phase, snapshot[i])'
  BY <1>3, AppliedStays
<1>6. \A r \in InFlight' : r.done => Applied(phase, r.arg)'
  BY <1>1, AppliedStays DEF AppliedInv
<1> QED
  BY <1>1, <1>5, <1>6 DEF AppliedInv

---------------------------------------------------------------------------
(* What the server does keeps it.                                          *)

\* A note added takes none away.
LEMMA AddKeepsApplied ==
  ASSUME IInv, AppliedInv, NEW r \in net, ServerAddsNote(r)
  PROVE  /\ NotesApart' /\ Applied("post", r.arg)'
         /\ \A entry : Applied("post", entry) => Applied("post", entry)'
<1>1. r.owner \in Account
  BY DEF AppliedInv, OwnRequests, ServerAddsNote, Reaches
<1>2. /\ NotesApart'
      /\ \A x \in Account : \A i \in DOMAIN server[x] :
           i \in DOMAIN server'[x] /\ server'[x][i] = server[x][i]
      /\ \E i \in DOMAIN server'[r.owner] :
           server'[r.owner][i] = [id |-> nextID, text |-> r.arg.text]
  BY <1>1, NoteAdded DEF IInv, LaunchInv, AppliedInv
<1>3. \E i \in DOMAIN server'[r.owner] : server'[r.owner][i].text = r.arg.text
  BY <1>2
<1>4. Applied("post", r.arg)'
  BY <1>1, <1>3 DEF Applied
<1>5. \A entry : Applied("post", entry) => Applied("post", entry)'
  BY <1>2 DEF Applied
<1> QED
  BY <1>2, <1>4, <1>5

\* A note edited keeps its id, and has the text of an edit that waits.
LEMMA EditKeepsApplied ==
  ASSUME IInv, AppliedInv, NEW r \in net, ServerEditsNote(r), r.arg \in ToSet(queue.edit)
  PROVE  /\ NotesApart' /\ Applied("edit", r.arg)'
         /\ \A entry : Applied("edit", entry) => Applied("edit", entry)'
<1> DEFINE id == r.arg.noteID
           text == r.arg.text
<1>1. UNCHANGED <<queue, nextID>>
  BY DEF ServerEditsNote, Answer, storeVars
<1>2. /\ NotesApart'
      /\ \A x \in Account :
           /\ DOMAIN server'[x] = DOMAIN server[x]
           /\ \A i \in DOMAIN server[x] :
                /\ server'[x][i].id = server[x][i].id
                /\ server[x][i].id = id => server'[x][i] = [id |-> id, text |-> text]
                /\ server[x][i].id # id => server'[x][i] = server[x][i]
      /\ \A m : OnServer(m)' => OnServer(m)
  BY NoteEdited DEF IInv, LaunchInv, AppliedInv
<1>3. NotesApart'
  BY <1>2
<1> HIDE DEF id, text
<1>4. \A k : OnServer(k)' => OnServer(k)
  BY <1>2 DEF OnServer
<1>5. OnServer(id)' => TextOnServer(id, text)'
  BY <1>2 DEF OnServer, TextOnServer
<1>6. \A k, t : k # id /\ TextOnServer(k, t) => TextOnServer(k, t)'
  <2> SUFFICES ASSUME NEW k, NEW t, k # id, TextOnServer(k, t)
               PROVE  TextOnServer(k, t)'
    OBVIOUS
  <2>1. PICK x \in Account : \E i \in DOMAIN server[x] : server[x][i] = [id |-> k, text |-> t]
    BY DEF TextOnServer
  <2>2. PICK i \in DOMAIN server[x] : server[x][i] = [id |-> k, text |-> t]
    BY <2>1
  <2>3. server[x][i].id # id
    BY <2>2
  <2> QED
    BY <1>2, <2>2, <2>3 DEF TextOnServer
<1>7. \A entry : OnServer(entry.noteID)' => (entry.noteID = id \/ OnServer(entry.noteID))
  BY <1>4
<1>8. /\ r.arg \in ToSet(queue'.edit) /\ queue'.edit = queue.edit
      /\ r.arg.noteID = id /\ r.arg.text = text
  BY <1>1 DEF id, text
<1>9. ASSUME NEW entry, entry.noteID = id PROVE Applied("edit", entry)'
  BY <1>5, <1>8, <1>9 DEF Applied
<1>10. ASSUME NEW entry, entry.noteID # id, Applied("edit", entry) PROVE Applied("edit", entry)'
  BY <1>4, <1>6, <1>8, <1>10 DEF Applied
<1> QED
  BY <1>3, <1>8, <1>9, <1>10

\* A note deleted is gone, for no other has its id.
LEMMA DeleteKeepsApplied ==
  ASSUME IInv, AppliedInv, NEW r \in net, ServerDeletesNote(r)
  PROVE  /\ NotesApart' /\ Applied("delete", r.arg)'
         /\ \A entry : Applied("delete", entry) => Applied("delete", entry)'
<1>1. NotesApart' /\ \A m : OnServer(m)' => OnServer(m) /\ m # r.arg.noteID
  BY NoteDeleted DEF IInv, LaunchInv, AppliedInv
<1> QED
  BY <1>1 DEF Applied

---------------------------------------------------------------------------
(* Every step keeps it.                                                    *)

LEMMA ServerKeepsApplied ==
  ASSUME IInv, AppliedInv, ServerStep, UNCHANGED chainVars
  PROVE  AppliedInv'
<1>1. PICK r \in net : \/ ServerAddsNote(r) \/ ServerEditsNote(r) \/ ServerDeletesNote(r)
                       \/ ServerListsNotes(r)
  BY DEF ServerStep, ServerDeletesUser, ServerRegisters, Reaches, AppliedInv, OwnRequests, Kind
<1>2. PICK id, rows : Answer(r, id, rows)
  BY <1>1 DEF ServerAddsNote, ServerEditsNote, ServerDeletesNote, ServerListsNotes
<1> DEFINE t == [r EXCEPT !.done = TRUE, !.id = id, !.rows = rows]
<1>3. /\ r \in Request /\ t.by = r.by /\ t.op = r.op /\ t.idx = r.idx
      /\ t.arg = r.arg /\ t.owner = r.owner
  BY DEF IInv, LaunchInv, NetOK, Request
<1>4. /\ net' = (net \ {r}) \cup {t}
      /\ UNCHANGED <<queue, phase, snapshot, indicesToRemove>>
  BY <1>2 DEF Answer, storeVars, chainVars
<1> HIDE DEF t
<1>5. OwnRequests'
  BY <1>3, <1>4 DEF AppliedInv, OwnRequests
<1>6. \A q \in InFlight' : q \in InFlight \/ (q = t /\ r \in InFlight)
  BY <1>3, <1>4 DEF InFlight
<1> PICK kind : kind = phase
  OBVIOUS
<1>7. r.op \in Kind => /\ r \in InFlight /\ r.op = kind
                       /\ r.idx \in DOMAIN snapshot /\ r.arg = snapshot[r.idx]
  BY DEF AppliedInv, OwnRequests, IInv, LaunchInv, ChainOK, Barrier, InFlight
<1>8. /\ NotesApart'
      /\ r.op \in Kind => Applied(kind, r.arg)'
      /\ kind \in Kind => \A entry : Applied(kind, entry) => Applied(kind, entry)'
  <2>1. CASE ServerAddsNote(r)
    <3>1. r.op = "post" /\ kind = "post"
      BY <1>7, <2>1 DEF ServerAddsNote, Reaches, Kind
    <3> QED
      BY <2>1, <3>1, AddKeepsApplied
  <2>2. CASE ServerEditsNote(r)
    <3>1. r.op = "edit" /\ kind = "edit"
      BY <1>7, <2>2 DEF ServerEditsNote, Reaches, Kind
    <3>2. r.arg \in ToSet(queue.edit)
      BY <1>7, <3>1 DEF IInv, LaunchInv, Captured, ChainOK, ToSet, Kind
    <3> QED
      BY <2>2, <3>1, <3>2, EditKeepsApplied
  <2>3. CASE ServerDeletesNote(r)
    <3>1. r.op = "delete" /\ kind = "delete"
      BY <1>7, <2>3 DEF ServerDeletesNote, Reaches, Kind
    <3> QED
      BY <2>3, <3>1, DeleteKeepsApplied
  <2>4. CASE ServerListsNotes(r)
    <3>1. UNCHANGED <<server, nextID, queue>> /\ r.op \notin Kind
      BY <1>4, <2>4 DEF ServerListsNotes, Reaches, remoteVars, Kind
    <3>2. NotesApart'
      BY <3>1 DEF AppliedInv, NotesApart
    <3> QED
      BY <3>1, <3>2, AppliedStays
  <2> QED
    BY <1>1, <2>1, <2>2, <2>3, <2>4
<1>9. kind \in Kind => \A i \in indicesToRemove : Applied(kind, snapshot[i])'
  <2>1. kind \in Kind => \A i \in indicesToRemove : Applied(kind, snapshot[i])
    BY DEF AppliedInv
  <2>2. UNCHANGED snapshot
    BY <1>4
  <2> QED
    BY <1>8, <2>1, <2>2
<1>10. ASSUME NEW q \in InFlight', q.done PROVE Applied(kind, q.arg)'
  <2>1. kind \in Kind
    BY <1>6 DEF IInv, LaunchInv, ChainOK, Barrier, InFlight
  <2>2. CASE q \in InFlight
    BY <1>8, <1>10, <2>1, <2>2 DEF AppliedInv
  <2>3. CASE q = t /\ r \in InFlight
    BY <1>3, <1>8, <2>3 DEF InFlight
  <2> QED
    BY <1>6, <1>10, <2>2, <2>3
<1> QED
  BY <1>4, <1>5, <1>8, <1>9, <1>10 DEF AppliedInv

LEMMA StepKeepsApplied ==
  ASSUME IInv, AppliedInv, [Next]_launchVars
  PROVE  AppliedInv'
<1>1. CASE Launch \/ Notify
  <2>1. InFlight = {} /\ uid \in Account \cup {NoAccount}
    <3>1. CASE Launch
      BY <3>1 DEF Launch, IInv, LaunchInv, DeviceTypeOK, InFlight
    <3>2. CASE Notify
      <4>1. phase \in Kind /\ group = 0
        BY <3>2 DEF Notify, NotifyDeletes, NotifyEdits, NotifyPosts, Kind
      <4> QED
        BY <4>1, NotifyWrites DEF IInv, LaunchInv, DeviceTypeOK
    <3> QED
      BY <1>1, <3>1, <3>2
  <2>2. PICK q \in Queues : \/ postDeletePendingData(q) \/ postEditedPendingData(q)
                            \/ postPendingUserNotes(q)
                            \/ Idle /\ UNCHANGED net
    <3>1. CASE Launch
      BY <3>1 DEF Launch, IInv, LaunchInv, DeviceTypeOK
    <3>2. CASE Notify
      <4>1. Written \in Queues
        BY <3>2, NotifyWrites DEF IInv, Notify, NotifyDeletes, NotifyEdits, NotifyPosts, Kind
      <4> QED
        BY <3>2, <4>1 DEF Notify, NotifyDeletes, NotifyEdits, NotifyPosts
    <3> QED
      BY <1>1, <3>1, <3>2
  <2>3. OwnRequests' /\ indicesToRemove' = {} /\ \A r \in InFlight' : ~r.done
    BY <2>1, <2>2, NothingDone DEF AppliedInv
  <2>4. UNCHANGED <<server, nextID>>
    BY <1>1 DEF Launch, Notify, NotifyDeletes, NotifyEdits, NotifyPosts, remoteVars
  <2>5. NotesApart'
    BY <2>4 DEF AppliedInv, NotesApart
  <2> QED
    BY <2>3, <2>5 DEF AppliedInv
<1>2. ASSUME NEW r \in net, LaunchRequestSucceeds(r) PROVE AppliedInv'
  BY <1>2, AnswerKeepsApplied
     DEF LaunchRequestSucceeds, Waiting, Delivered, InFlight, remoteVars
<1>3. ASSUME NEW r \in net, LaunchRequestFails(r) \/ FetchSucceeds(r) \/ FetchFails(r)
      PROVE  AppliedInv'
  BY <1>3, AnswerKeepsApplied
     DEF LaunchRequestFails, FetchSucceeds, FetchFails, storeVars, remoteVars, chainVars
<1>4. CASE ServerStep /\ UNCHANGED chainVars
  BY <1>4, ServerKeepsApplied
<1>5. CASE Kill
  <2>1. net' = {} /\ indicesToRemove' = {} /\ UNCHANGED <<server, nextID>>
    BY <1>5 DEF Kill, ProcessEnds, Idle, remoteVars
  <2> QED
    BY <2>1 DEF AppliedInv, NotesApart, OwnRequests, InFlight
<1>6. CASE Flip \/ UNCHANGED launchVars
  BY <1>6, AnswerKeepsApplied
     DEF Flip, NetworkChanges, launchVars, deviceVars, storeVars, remoteVars, chainVars
<1> QED
  BY <1>1, <1>2, <1>3, <1>4, <1>5, <1>6 DEF Next, LaunchStep

\* What leaves a queue was applied.
LEMMA DroppedWasApplied ==
  ASSUME IInv, AppliedInv, Next, NEW k \in Kind,
         NEW entry \in ToSet(queue[k]) \ ToSet(queue'[k])
  PROVE  Applied(k, entry)
<1>1. Notify
  BY DEF Next, LaunchStep, Launch, LaunchRequestSucceeds, LaunchRequestFails,
     FetchSucceeds, FetchFails, ServerStep, ServerAddsNote, ServerEditsNote,
     ServerDeletesNote, ServerListsNotes, ServerDeletesUser, ServerRegisters, Answer,
     Kill, ProcessEnds, Flip, NetworkChanges, storeVars
<1>2. /\ phase \in Kind /\ queue \in Queues /\ snapshot = queue[phase]
      /\ queue' = [queue EXCEPT ![phase] = removeAtOffsets(queue[phase], indicesToRemove)]
  BY <1>1 DEF Notify, NotifyDeletes, NotifyEdits, NotifyPosts, Written, Kind,
     IInv, LaunchInv, Captured, DeviceTypeOK, ChainOK
<1>3. /\ queue'[phase] = removeAtOffsets(queue[phase], indicesToRemove)
      /\ \A x \in Kind \ {phase} : queue'[x] = queue[x]
  BY <1>2 DEF Queues, Kind
<1>4. k = phase
  BY <1>3
<1>5. Promise!IsWithout(queue'[phase], queue[phase], indicesToRemove)
  BY <1>2, QueueOfKind, RemovalIsWithout
<1>6. PICK n \in DOMAIN queue[phase] : queue[phase][n] = entry
  BY <1>4 DEF ToSet
<1>7. n \in indicesToRemove
  BY <1>4, <1>5, <1>6 DEF Promise!IsWithout, ToSet
<1> QED
  BY <1>2, <1>4, <1>6, <1>7 DEF AppliedInv

\* If the server numbers its notes, an entry leaves a queue only when the
\* server has done what it asked for, and not undone it since: whatever the
\* order of the answers, and however many launches it takes
\* (DroppedOnlyWhenApplied).
THEOREM DropsAreApplied == Spec /\ NotesApart => DroppedOnlyWhenApplied
<1>1. Init /\ NotesApart => AppliedInv
  BY DEF Init, AppliedInv, OwnRequests, InFlight, Kind
<1>2. IInv /\ AppliedInv /\ [Next]_launchVars => AppliedInv'
  BY StepKeepsApplied
<1>3. ASSUME IInv, AppliedInv, Next PROVE DropsApplied
  BY <1>3, DroppedWasApplied DEF DropsApplied
<1>4. IInv /\ AppliedInv /\ [Next]_launchVars => [DropsApplied]_launchVars
  BY <1>3
<1> QED
  BY <1>1, <1>2, <1>4, InvariantHolds, PTL DEF Spec, DroppedOnlyWhenApplied

---------------------------------------------------------------------------
(* A new note has one copy on the server for every time it may be sent.    *)

CopiesOf(t) == {i \in DOMAIN server[alice] : server[alice][i].text = t}
Queued(t)   == {i \in DOMAIN queue.post : queue.post[i].text = t}

\* How often a launch was cut short.
Kills == Limit["kill"] - left["kill"]

\* A copy may still be sent before the next kill.
Coming(t) ==
  \/ (~running \/ phase \in {"delete", "edit"}) /\ Queued(t) # {}
  \/ \E r \in InFlight : r.op = "post" /\ ~r.done /\ r.arg.text = t

CopyInv(t) ==
  /\ \A i, j \in Queued(t) : i = j
  /\ \A entry \in ToSet(queue.edit) : entry.text # t
  /\ Cardinality(CopiesOf(t)) <= 1 + Kills
  /\ Coming(t) => Cardinality(CopiesOf(t)) <= Kills

LEMMA CopiesAreFinite ==
  ASSUME DeviceTypeOK, alice \in Account, NEW t
  PROVE  /\ IsFiniteSet(CopiesOf(t)) /\ Cardinality(CopiesOf(t)) \in Nat
         /\ Kills \in Int
<1>1. /\ Len(server[alice]) \in Nat /\ DOMAIN server[alice] = 1..Len(server[alice])
  BY NotesOfServer
<1>2. IsFiniteSet(DOMAIN server[alice])
  BY <1>1, FS_Interval
<1>3. CopiesOf(t) \in SUBSET DOMAIN server[alice]
  BY DEF CopiesOf
<1>4. IsFiniteSet(CopiesOf(t)) /\ Cardinality(CopiesOf(t)) \in Nat
  BY <1>2, <1>3, FS_Subset, FS_CardinalityType
<1>5. Kills \in Int
  BY LimitAssumption DEF Kills, DeviceTypeOK
<1> QED
  BY <1>4, <1>5

\* A note added is one copy more at most, and of its own text.
LEMMA OneCopyMore ==
  ASSUME DeviceTypeOK, alice \in Account, NEW t, NEW r, ServerAddsNote(r)
  PROVE  /\ IsFiniteSet(CopiesOf(t)') /\ Cardinality(CopiesOf(t)') \in Nat
         /\ Cardinality(CopiesOf(t)') <= Cardinality(CopiesOf(t)) + 1
         /\ r.arg.text # t => Cardinality(CopiesOf(t)') <= Cardinality(CopiesOf(t))
<1> DEFINE n == Len(server[alice])
           new == [id |-> nextID, text |-> r.arg.text]
<1>1. IsFiniteSet(CopiesOf(t)) /\ Cardinality(CopiesOf(t)) \in Nat
  BY CopiesAreFinite
<1>2. n \in Nat /\ DOMAIN server[alice] = 1..n
  BY NotesOfServer
<1>3. \/ server'[alice] = server[alice]
      \/ server'[alice] = Append(server[alice], new)
  BY DEF ServerAddsNote, DeviceTypeOK
<1> HIDE DEF n
<1>4. CASE server'[alice] = server[alice]
  <2>1. CopiesOf(t)' = CopiesOf(t)
    BY <1>4 DEF CopiesOf
  <2> QED
    BY <1>1, <2>1
<1>5. CASE server'[alice] = Append(server[alice], new)
  <2>1. server[alice] \in Seq(ServerNote)
    BY NotesOfServer
  <2>2. /\ DOMAIN server'[alice] = 1..(n + 1)
        /\ \A i \in 1..n : server'[alice][i] = server[alice][i]
        /\ server'[alice][n + 1] = new
    BY <1>2, <1>5, <2>1 DEF n
  <2>3. new.text = r.arg.text
    OBVIOUS
  <2> HIDE DEF new
  <2>4. CopiesOf(t)' = IF r.arg.text = t THEN CopiesOf(t) \cup {n + 1} ELSE CopiesOf(t)
    BY <1>2, <2>2, <2>3 DEF CopiesOf
  <2>5. n + 1 \notin CopiesOf(t)
    BY <1>2 DEF CopiesOf
  <2>6. /\ IsFiniteSet(CopiesOf(t) \cup {n + 1})
        /\ Cardinality(CopiesOf(t) \cup {n + 1}) = Cardinality(CopiesOf(t)) + 1
    BY <1>1, <2>5, FS_AddElement
  <2> QED
    BY <1>1, <2>4, <2>6
<1> QED
  BY <1>3, <1>4, <1>5

\* An edit with another text makes none.
LEMMA NoCopyByEdit ==
  ASSUME DeviceTypeOK, alice \in Account, NEW t, NEW r, ServerEditsNote(r), r.arg.text # t
  PROVE  /\ IsFiniteSet(CopiesOf(t)') /\ Cardinality(CopiesOf(t)') \in Nat
         /\ Cardinality(CopiesOf(t)') <= Cardinality(CopiesOf(t))
<1>1. IsFiniteSet(CopiesOf(t)) /\ Cardinality(CopiesOf(t)) \in Nat
  BY CopiesAreFinite
<1>2. server[alice] \in Seq(ServerNote)
  BY NotesOfServer
<1>3. /\ DOMAIN server'[alice] = DOMAIN server[alice]
      /\ \A i \in DOMAIN server[alice] :
           server'[alice][i] = IF server[alice][i].id = r.arg.noteID
                                 THEN [server[alice][i] EXCEPT !.text = r.arg.text]
                                 ELSE server[alice][i]
  BY DEF ServerEditsNote
<1>4. \A n \in ServerNote : [n EXCEPT !.text = r.arg.text].text = r.arg.text
  BY DEF ServerNote
<1>5. \A i \in DOMAIN server[alice] : server[alice][i] \in ServerNote
  BY <1>2
<1>6. CopiesOf(t)' \in SUBSET CopiesOf(t)
  BY <1>3, <1>4, <1>5 DEF CopiesOf
<1> QED
  BY <1>1, <1>6, FS_Subset, FS_CardinalityType

\* Nor does a deletion.
LEMMA NoCopyByDeletion ==
  ASSUME DeviceTypeOK, alice \in Account, NEW t, NEW r, ServerDeletesNote(r)
  PROVE  /\ IsFiniteSet(CopiesOf(t)') /\ Cardinality(CopiesOf(t)') \in Nat
         /\ Cardinality(CopiesOf(t)') <= Cardinality(CopiesOf(t))
<1> DEFINE k == SelectInSeq(server[alice], LAMBDA n : n.id = r.arg.noteID)
           s == server[alice]
<1>1. IsFiniteSet(CopiesOf(t)) /\ Cardinality(CopiesOf(t)) \in Nat
  BY CopiesAreFinite
<1>2. s \in Seq(ServerNote) /\ Len(s) \in Nat /\ DOMAIN s = 1..Len(s)
  BY NotesOfServer
<1>3. server'[alice] = IF k = 0 THEN s ELSE RemoveAt(s, k)
  BY DEF ServerDeletesNote
<1>4. k # 0 => k \in 1..Len(s)
  <2> DEFINE hit == {i \in 1..Len(s) : s[i].id = r.arg.noteID}
  <2>1. k = IF hit # {} THEN Min(hit) ELSE 0
    BY DEF SelectInSeq
  <2>2. hit \in SUBSET Nat /\ hit \subseteq 1..Len(s)
    BY <1>2
  <2> HIDE DEF hit, k
  <2> QED
    BY <2>1, <2>2, MinIsMember
<1> HIDE DEF k
<1>5. CASE k = 0
  <2>1. CopiesOf(t)' = CopiesOf(t)
    BY <1>3, <1>5 DEF CopiesOf
  <2> QED
    BY <1>1, <2>1
<1>6. CASE k # 0
  <2> DEFINE from == [i \in CopiesOf(t)' |-> IF i < k THEN i ELSE i + 1]
  <2>1. server'[alice] = RemoveAt(s, k)
    BY <1>3, <1>6
  <2>2. \A i \in DOMAIN server'[alice] :
           /\ i \in Nat
           /\ \/ i < k /\ i \in DOMAIN s /\ server'[alice][i] = s[i]
              \/ i >= k /\ i + 1 \in DOMAIN s /\ server'[alice][i] = s[i + 1]
    BY <1>2, <1>4, <1>6, <2>1, ShorterElements
  <2>3. k \in Nat
    BY <1>2, <1>4, <1>6
  <2>4. \A i \in CopiesOf(t)' : /\ i \in Nat
                               /\ (IF i < k THEN i ELSE i + 1) \in CopiesOf(t)
    BY <2>2, <2>3 DEF CopiesOf
  <2>5. from \in [CopiesOf(t)' -> CopiesOf(t)]
    BY <2>4
  <2>6. \A i, j \in CopiesOf(t)' : from[i] = from[j] => i = j
    BY <2>3, <2>4
  <2>7. from \in Injection(CopiesOf(t)', CopiesOf(t))
    BY <2>5, <2>6, Zenon DEF Injection, IsInjective
  <2> QED
    BY <1>1, <2>7, FS_Injection, FS_CardinalityType
<1> QED
  BY <1>5, <1>6

\* What a request of the drain carries is an entry of its queue.
LEMMA CarriesItsEntry ==
  ASSUME IInv, NEW r \in InFlight
  PROVE  /\ phase = r.op /\ phase \in Kind /\ running
         /\ r.idx \in DOMAIN queue[phase] /\ r.arg = queue[phase][r.idx]
<1>1. r.op = phase /\ r.op \in Kind /\ r.idx \in DOMAIN snapshot /\ r.arg = snapshot[r.idx]
  BY DEF IInv, LaunchInv, ChainOK, Barrier, InFlight
<1>2. snapshot = queue[phase]
  BY <1>1 DEF IInv, Captured
<1>3. running
  BY DEF IInv, LaunchInv, InFlight, DeviceTypeOK
<1> QED
  BY <1>1, <1>2, <1>3

\* Who is under way with a new note has it in the queue.
LEMMA ComingIsQueued ==
  ASSUME IInv, NEW t, Coming(t)
  PROVE  Queued(t) # {}
<1>1. CASE \E r \in InFlight : r.op = "post" /\ ~r.done /\ r.arg.text = t
  <2>1. PICK r \in InFlight : r.op = "post" /\ ~r.done /\ r.arg.text = t
    BY <1>1
  <2>2. r.idx \in DOMAIN queue.post /\ r.arg = queue.post[r.idx]
    BY <2>1, CarriesItsEntry
  <2> QED
    BY <2>1, <2>2 DEF Queued
<1> QED
  BY <1>1 DEF Coming

LEMMA ComingIsQueuedNext ==
  ASSUME NEW t
  PROVE  (IInv /\ Coming(t) => Queued(t) # {})'
<1>1. IInv /\ Coming(t) => Queued(t) # {}
  BY ComingIsQueued
<1> QED
  BY <1>1, PTL

\* A step that adds no copy, nor anything that waits.
LEMMA CopiesKept ==
  ASSUME NEW t, CopyInv(t), DeviceTypeOK, alice \in Account,
         UNCHANGED <<server, queue>>, UNCHANGED left \/ left'["kill"] = left["kill"],
         Coming(t)' => Coming(t)
  PROVE  CopyInv(t)'
<1>1. /\ CopiesOf(t)' = CopiesOf(t) /\ Queued(t)' = Queued(t)
      /\ Kills' = Kills /\ queue' = queue
  BY DEF CopiesOf, Queued, Kills
<1> QED
  BY <1>1 DEF CopyInv

\* A failure or a change of the network is no kill.
LEMMA SpendIsNoKill ==
  ASSUME DeviceTypeOK, NEW what, what # "kill", Spend(what)
  PROVE  left'["kill"] = left["kill"]
  BY LimitAssumption DEF Spend, SpendAll, DeviceTypeOK

\* The start of a drain brings nothing up that was not.
LEMMA LaunchBringsNone ==
  ASSUME IInv, IInv', Launch, NEW t, Coming(t)'
  PROVE  Coming(t)
<1>1. Queued(t)' # {}
  BY ComingIsQueuedNext
<1>2. queue' = queue /\ ~running
  BY DEF Launch, storeVars
<1>3. Queued(t)' = Queued(t)
  BY <1>2 DEF Queued
<1> QED
  BY <1>1, <1>2, <1>3 DEF Coming

\* What a notify block writes back.
LEMMA WritesBack ==
  ASSUME IInv, Notify
  PROVE  /\ phase \in Kind /\ InFlight = {} /\ queue \in Queues /\ running
         /\ queue'[phase] = removeAtOffsets(queue[phase], indicesToRemove)
         /\ \A k \in Kind \ {phase} : queue'[k] = queue[k]
         /\ server' = server /\ left' = left /\ running' = running
<1>1. /\ phase \in Kind /\ queue \in Queues /\ snapshot = queue[phase] /\ group = 0
      /\ queue' = [queue EXCEPT ![phase] = removeAtOffsets(queue[phase], indicesToRemove)]
  BY DEF Notify, NotifyDeletes, NotifyEdits, NotifyPosts, Written, Kind,
     IInv, LaunchInv, Captured, DeviceTypeOK, ChainOK
<1>2. InFlight = {}
  BY <1>1, NotifyWrites DEF IInv
<1>3. /\ queue'[phase] = removeAtOffsets(queue[phase], indicesToRemove)
      /\ \A k \in Kind \ {phase} : queue'[k] = queue[k]
  BY <1>1 DEF Queues, Kind
<1>4. server' = server /\ left' = left /\ running' = running
  BY DEF Notify, NotifyDeletes, NotifyEdits, NotifyPosts, remoteVars
<1>5. running
  BY <1>1 DEF IInv, LaunchInv, DeviceTypeOK, Kind
<1> QED
  BY <1>1, <1>2, <1>3, <1>4, <1>5

\* An entry left of a queue was there, and only once if it was there once.
LEMMA LeftWasThere ==
  ASSUME NEW S, NEW s \in Seq(S), NEW I, NEW t, t = removeAtOffsets(s, I)
  PROVE  \A i \in DOMAIN t : \E j \in DOMAIN s : t[i] = s[j]
  BY RemovalIsWithout DEF Promise!IsWithout

LEMMA LeftOnce ==
  ASSUME NEW S, NEW s \in Seq(S), NEW I, NEW t, t = removeAtOffsets(s, I),
         NEW one, \A i, j \in DOMAIN s : s[i] \in one /\ s[j] \in one => i = j
  PROVE  \A i, j \in DOMAIN t : t[i] \in one /\ t[j] \in one => i = j
<1>1. PICK at \in [DOMAIN t -> DOMAIN s \ I] :
        /\ \A i \in DOMAIN t : t[i] = s[at[i]]
        /\ \A i, j \in DOMAIN t : i < j => at[i] < at[j]
  BY RemovalIsWithout DEF Promise!IsWithout
<1>2. DOMAIN t \subseteq Nat /\ DOMAIN s \subseteq Nat
  BY RemovalIsArray
<1> SUFFICES ASSUME NEW i \in DOMAIN t, NEW j \in DOMAIN t, t[i] \in one, t[j] \in one
             PROVE  i = j
  OBVIOUS
<1>3. at[i] = at[j]
  BY <1>1
<1>4. at[i] \in Nat /\ i \in Nat /\ j \in Nat
  BY <1>1, <1>2
<1> QED
  BY <1>1, <1>3, <1>4

\* A notify block leaves each new note its one entry, and starts no drain of
\* one that was not to come.
LEMMA NotifyKeepsCopies ==
  ASSUME NEW t, IInv, IInv', CopyInv(t), Notify, alice \in Account
  PROVE  CopyInv(t)'
<1>1. /\ phase \in Kind /\ InFlight = {} /\ queue \in Queues /\ running
      /\ queue'[phase] = removeAtOffsets(queue[phase], indicesToRemove)
      /\ \A k \in Kind \ {phase} : queue'[k] = queue[k]
      /\ server' = server /\ left' = left /\ running' = running
  BY WritesBack
<1>2. CopiesOf(t)' = CopiesOf(t) /\ Kills' = Kills
  BY <1>1 DEF CopiesOf, Kills
<1>3. \A i, j \in Queued(t)' : i = j
  <2>1. CASE phase = "post"
    <3> DEFINE one == {entry \in Entry : entry.text = t}
    <3>1. queue.post \in Seq(Entry) /\ queue'.post = removeAtOffsets(queue.post, indicesToRemove)
      BY <1>1, <2>1, QueueOfKind DEF Kind
    <3>2. \A i, j \in DOMAIN queue.post :
            queue.post[i] \in one /\ queue.post[j] \in one => i = j
      BY DEF CopyInv, Queued
    <3>3. \A i \in Queued(t)' : i \in DOMAIN queue'.post /\ queue'.post[i] \in one
      <4>1. queue'.post \in Seq(Entry)
        BY <3>1, RemovalIsArray
      <4> QED
        BY <4>1 DEF Queued
    <3> HIDE DEF one
    <3>4. \A i, j \in DOMAIN queue'.post :
            queue'.post[i] \in one /\ queue'.post[j] \in one => i = j
      BY <3>1, <3>2, LeftOnce
    <3> QED
      BY <3>3, <3>4
  <2>2. CASE phase # "post"
    <3>1. queue'.post = queue.post
      BY <1>1, <2>2 DEF Kind
    <3> QED
      BY <3>1 DEF CopyInv, Queued
  <2> QED
    BY <2>1, <2>2
<1>4. \A entry \in ToSet(queue'.edit) : entry.text # t
  <2>1. CASE phase = "edit"
    <3>1. queue.edit \in Seq(Entry) /\ queue'.edit = removeAtOffsets(queue.edit, indicesToRemove)
      BY <1>1, <2>1, QueueOfKind DEF Kind
    <3>2. \A i \in DOMAIN queue'.edit : \E j \in DOMAIN queue.edit : queue'.edit[i] = queue.edit[j]
      BY <3>1, LeftWasThere
    <3> QED
      BY <3>2 DEF CopyInv, ToSet
  <2>2. CASE phase # "edit"
    <3>1. queue'.edit = queue.edit
      BY <1>1, <2>2 DEF Kind
    <3> QED
      BY <3>1 DEF CopyInv
  <2> QED
    BY <2>1, <2>2
<1>5. Coming(t)' => Coming(t)
  <2> SUFFICES ASSUME Coming(t)' PROVE Coming(t)
    OBVIOUS
  <2>1. Queued(t)' # {}
    BY ComingIsQueuedNext
  <2>2. CASE phase = "post"
    <3>1. InFlight' = {} /\ phase' = "none"
      <4>1. NotifyPosts
        BY <2>2 DEF Notify, NotifyDeletes, NotifyEdits
      <4>2. net' = net
        BY <4>1 DEF NotifyPosts
      <4> QED
        BY <1>1, <4>1, <4>2 DEF NotifyPosts, Idle, InFlight
    <3> QED
      BY <1>1, <3>1 DEF Coming
  <2>3. CASE phase # "post"
    <3>1. queue'.post = queue.post /\ phase \in {"delete", "edit"}
      BY <1>1, <2>3 DEF Kind
    <3> QED
      BY <2>1, <3>1 DEF Coming, Queued
  <2> QED
    BY <2>2, <2>3
<1> QED
  BY <1>2, <1>3, <1>4, <1>5 DEF CopyInv

\* The server stores a new note once for the one request that carries it.
LEMMA ServerKeepsCopies ==
  ASSUME NEW t, IInv, IInv', AppliedInv, CopyInv(t), alice \in Account,
         ServerStep, UNCHANGED chainVars
  PROVE  CopyInv(t)'
<1>1. PICK r \in net : \/ ServerAddsNote(r) \/ ServerEditsNote(r) \/ ServerDeletesNote(r)
                       \/ ServerListsNotes(r)
  BY DEF ServerStep, ServerDeletesUser, ServerRegisters, Reaches, AppliedInv, OwnRequests, Kind
<1>2. PICK id, rows : Answer(r, id, rows)
  BY <1>1 DEF ServerAddsNote, ServerEditsNote, ServerDeletesNote, ServerListsNotes
<1> DEFINE s == [r EXCEPT !.done = TRUE, !.id = id, !.rows = rows]
<1>3. /\ r \in Request /\ s.done
      /\ r.by = "launch" /\ (r.op \in Kind => r \in InFlight)
  BY DEF IInv, LaunchInv, NetOK, Request, AppliedInv, OwnRequests, InFlight
<1>4. /\ net' = (net \ {r}) \cup {s}
      /\ UNCHANGED <<queue, phase, running, left>>
  BY <1>2 DEF Answer, storeVars, chainVars
<1> HIDE DEF s
<1>5. Queued(t)' = Queued(t) /\ Kills' = Kills
  BY <1>4 DEF Queued, Kills
<1>6. Coming(t)' => Coming(t)
  BY <1>3, <1>4, <1>5 DEF Coming, InFlight
<1>7. /\ IsFiniteSet(CopiesOf(t)) /\ Cardinality(CopiesOf(t)) \in Nat
      /\ Kills \in Int
  BY CopiesAreFinite DEF IInv, LaunchInv
<1>8. CASE /\ Cardinality(CopiesOf(t)') \in Nat
           /\ Cardinality(CopiesOf(t)') <= Cardinality(CopiesOf(t))
  <2> DEFINE n2 == Cardinality(CopiesOf(t)')
  <2>1. n2 \in Nat /\ n2 <= Cardinality(CopiesOf(t))
    BY <1>8
  <2> HIDE DEF n2
  <2>2. n2 <= 1 + Kills /\ (Coming(t) => n2 <= Kills)
    BY <1>7, <2>1 DEF CopyInv
  <2> QED
    BY <1>4, <1>5, <1>6, <2>2 DEF CopyInv, n2
<1>9. CASE ServerAddsNote(r) /\ r.arg.text = t
  <2>1. r \in InFlight /\ r.op = "post" /\ ~r.done
    BY <1>3, <1>9 DEF ServerAddsNote, Reaches, Kind
  <2>2. Coming(t)
    BY <1>9, <2>1 DEF Coming
  <2>3. /\ Cardinality(CopiesOf(t)') \in Nat
        /\ Cardinality(CopiesOf(t)') <= Cardinality(CopiesOf(t)) + 1
    BY <1>9, OneCopyMore DEF IInv, LaunchInv
  <2>4. phase = "post" /\ running
    BY <2>1, CarriesItsEntry
  <2>5. ~Coming(t)'
    <3> SUFFICES ASSUME NEW q \in InFlight', q.op = "post", ~q.done, q.arg.text = t
                 PROVE  FALSE
      BY <1>4, <2>4 DEF Coming
    <3>1. q \in InFlight /\ q # r
      BY <1>3, <1>4 DEF InFlight
    <3>2. /\ q.idx \in DOMAIN queue.post /\ q.arg = queue.post[q.idx]
          /\ r.idx \in DOMAIN queue.post /\ r.arg = queue.post[r.idx]
      BY <2>1, <2>4, <3>1, CarriesItsEntry
    <3>3. q.idx = r.idx
      BY <1>9, <3>2 DEF CopyInv, Queued
    <3> QED
      BY <2>1, <3>1, <3>3 DEF IInv, LaunchInv, ChainOK, OneEach
  <2>6. Cardinality(CopiesOf(t)) <= Kills
    BY <2>2 DEF CopyInv
  <2> DEFINE n2 == Cardinality(CopiesOf(t)')
  <2>7. n2 <= 1 + Kills
    BY <1>7, <2>3, <2>6
  <2> HIDE DEF n2
  <2> QED
    BY <1>4, <1>5, <2>5, <2>7 DEF CopyInv, n2
<1>10. CASE ServerEditsNote(r)
  <2>1. r \in InFlight /\ r.op = "edit"
    BY <1>3, <1>10 DEF ServerEditsNote, Reaches, Kind
  <2>2. r.arg \in ToSet(queue.edit)
    BY <2>1, CarriesItsEntry DEF ToSet
  <2>3. /\ Cardinality(CopiesOf(t)') \in Nat
        /\ Cardinality(CopiesOf(t)') <= Cardinality(CopiesOf(t))
    BY <1>10, <2>2, NoCopyByEdit DEF CopyInv, IInv, LaunchInv
  <2> QED
    BY <1>8, <2>3
<1>11. CASE ServerDeletesNote(r)
  BY <1>8, <1>11, NoCopyByDeletion DEF IInv, LaunchInv
<1>12. CASE ServerListsNotes(r)
  <2>1. CopiesOf(t)' = CopiesOf(t)
    BY <1>12 DEF ServerListsNotes, remoteVars, CopiesOf
  <2> QED
    BY <1>7, <1>8, <2>1
<1>13. CASE ServerAddsNote(r) /\ r.arg.text # t
  BY <1>8, <1>13, OneCopyMore DEF IInv, LaunchInv
<1> QED
  BY <1>1, <1>9, <1>10, <1>11, <1>12, <1>13

LEMMA StepKeepsCopies ==
  ASSUME NEW t, IInv, IInv', AppliedInv, CopyInv(t), [Next]_launchVars, alice \in Account
  PROVE  CopyInv(t)'
<1>0. DeviceTypeOK
  BY DEF IInv, LaunchInv
<1>1. CASE Launch
  <2>1. UNCHANGED <<server, queue, left>>
    BY <1>1 DEF Launch, storeVars, remoteVars
  <2> QED
    BY <1>0, <1>1, <2>1, LaunchBringsNone, CopiesKept
<1>2. CASE Notify
  BY <1>2, NotifyKeepsCopies
<1>3. ASSUME NEW r \in net,
             \/ LaunchRequestSucceeds(r) \/ LaunchRequestFails(r)
             \/ FetchSucceeds(r) \/ FetchFails(r)
      PROVE  CopyInv(t)'
  <2>1. /\ UNCHANGED <<server, queue, running, phase>>
        /\ net' = net \ {r}
    BY <1>3 DEF LaunchRequestSucceeds, LaunchRequestFails, FetchSucceeds, FetchFails,
       storeVars, remoteVars, chainVars
  <2>2. left' = left \/ Spend("fail")
    BY <1>3 DEF LaunchRequestSucceeds, LaunchRequestFails, FetchSucceeds, FetchFails,
       Delivered, Failed
  <2>3. left'["kill"] = left["kill"]
    BY <1>0, <2>2, SpendIsNoKill
  <2>4. Coming(t)' => Coming(t)
    BY <2>1 DEF Coming, InFlight, Queued
  <2> QED
    BY <1>0, <2>1, <2>3, <2>4, CopiesKept
<1>4. CASE ServerStep /\ UNCHANGED chainVars
  BY <1>4, ServerKeepsCopies
<1>5. CASE Kill
  <2>1. /\ UNCHANGED <<server, queue>> /\ running /\ Spend("kill") /\ ~running' /\ phase' = "none"
        /\ net' = {}
    BY <1>5 DEF Kill, ProcessEnds, Idle, storeVars, remoteVars
  <2>2. CopiesOf(t)' = CopiesOf(t) /\ Queued(t)' = Queued(t) /\ queue' = queue
    BY <2>1 DEF CopiesOf, Queued
  <2>3. left'["kill"] = left["kill"] - 1 /\ left["kill"] \in Nat /\ Limit["kill"] \in Nat
    BY <1>0, <2>1, LimitAssumption DEF Spend, SpendAll, DeviceTypeOK
  <2>4. Cardinality(CopiesOf(t)) \in Nat
    BY <1>0, CopiesAreFinite
  <2> DEFINE l2 == left'["kill"]
  <2>5. Kills' = Limit["kill"] - l2
    BY DEF Kills
  <2>6. l2 = left["kill"] - 1
    BY <2>3
  <2> HIDE DEF l2
  <2>7. Kills' = Kills + 1 /\ Kills \in Int
    BY <2>3, <2>5, <2>6 DEF Kills
  <2> DEFINE k2 == Kills'
  <2>8. k2 = Kills + 1
    BY <2>7
  <2> HIDE DEF k2
  <2>9. Cardinality(CopiesOf(t)) <= k2 /\ Cardinality(CopiesOf(t)) <= 1 + k2
    BY <2>4, <2>7, <2>8 DEF CopyInv
  <2> QED
    BY <2>2, <2>9 DEF CopyInv, k2
<1>6. CASE Flip
  <2>1. /\ UNCHANGED <<server, queue, running, phase, net>> /\ Spend("flip")
    BY <1>6 DEF Flip, NetworkChanges, storeVars, remoteVars, chainVars
  <2>2. Coming(t)' => Coming(t)
    BY <2>1 DEF Coming, InFlight, Queued
  <2> QED
    BY <1>0, <2>1, <2>2, SpendIsNoKill, CopiesKept
<1>7. CASE UNCHANGED launchVars
  <2>1. UNCHANGED <<server, queue, running, phase, net, left>>
    BY <1>7 DEF launchVars, deviceVars, storeVars, remoteVars, chainVars
  <2>2. Coming(t)' => Coming(t)
    BY <2>1 DEF Coming, InFlight, Queued
  <2> QED
    BY <1>0, <2>1, <2>2, CopiesKept
<1> QED
  BY <1>1, <1>2, <1>3, <1>4, <1>5, <1>6, <1>7 DEF Next, LaunchStep

\* A new text: no note on the server has it, no edit waits that would give it
\* to one, and one note at most waits with it.
NewText(t) ==
  /\ CopiesOf(t) = {}
  /\ \A entry \in ToSet(queue.edit) : entry.text # t
  /\ \A i, j \in Queued(t) : i = j

LEMMA NewTextStarts ==
  ASSUME NEW t, Init, NewText(t), left = Limit, alice \in Account
  PROVE  CopyInv(t)
<1>1. Kills = 0
  BY LimitAssumption DEF Kills
<1>2. Cardinality(CopiesOf(t)) = 0
  BY FS_EmptySet DEF NewText
<1> QED
  BY <1>1, <1>2 DEF NewText, CopyInv

\* A new note waiting at a launch is sent at most once by it, and once more by
\* each launch after a kill: no answer lost, refused or garbled, no change of
\* the network and no order of the answers makes the server keep more copies of
\* it than launches were cut short, and one (AppDelegate.postPendingUserNotes).
THEOREM PostedOncePerLaunch ==
  ASSUME alice \in Account
  PROVE  Spec /\ NotesApart /\ left = Limit /\ NewText(c) /\ NewText(d) => []OneCopyPerLaunch
<1>1. Init /\ NotesApart => AppliedInv
  BY DEF Init, AppliedInv, OwnRequests, InFlight, Kind
<1>2. Init /\ left = Limit /\ NewText(c) /\ NewText(d) => CopyInv(c) /\ CopyInv(d)
  BY NewTextStarts
<1>3. IInv /\ AppliedInv /\ [Next]_launchVars => AppliedInv'
  BY StepKeepsApplied
<1>4. IInv /\ IInv' /\ AppliedInv /\ CopyInv(c) /\ CopyInv(d) /\ [Next]_launchVars
      => CopyInv(c)' /\ CopyInv(d)'
  BY StepKeepsCopies
<1>5. IInv /\ CopyInv(c) /\ CopyInv(d) => OneCopyPerLaunch
  <2> SUFFICES ASSUME IInv, CopyInv(c), CopyInv(d) PROVE OneCopyPerLaunch
    OBVIOUS
  <2>1. ASSUME NEW t \in {c, d} PROVE Cardinality(CopiesOf(t)) <= 1 + Limit["kill"] - left["kill"]
    <3>1. Cardinality(CopiesOf(t)) <= 1 + (Limit["kill"] - left["kill"])
      BY <2>1 DEF CopyInv, Kills
    <3>2. Limit["kill"] \in Nat /\ left["kill"] \in Nat
      BY LimitAssumption DEF IInv, LaunchInv, DeviceTypeOK
    <3> QED
      BY <3>1, <3>2
  <2> QED
    BY <2>1 DEF OneCopyPerLaunch, CopiesOf
<1> QED
  BY <1>1, <1>2, <1>3, <1>4, <1>5, InvariantHolds, PTL DEF Spec

---------------------------------------------------------------------------
(* What the server says of an id, and what a row says of it.               *)

\* A note added is said under its new id, and nothing else is.
LEMMA SaidAfterAdding ==
  ASSUME DeviceTypeOK, NotesApart, NEW r, r.owner \in Account, ServerAddsNote(r)
  PROVE  \A m, t : TextOnServer(m, t)'
                     <=> TextOnServer(m, t) \/ (m = nextID /\ t = r.arg.text)
<1> DEFINE new == [id |-> nextID, text |-> r.arg.text]
           n == Len(server[r.owner])
<1>1. /\ server'[r.owner] = Append(server[r.owner], new)
      /\ \A x \in Account : x # r.owner => server'[x] = server[x]
  BY DEF ServerAddsNote, DeviceTypeOK
<1>2. server[r.owner] \in Seq(ServerNote) /\ n \in Nat /\ DOMAIN server[r.owner] = 1..n
  BY NotesOfServer
<1>3. /\ DOMAIN server'[r.owner] = 1..(n + 1)
      /\ \A i \in 1..n : server'[r.owner][i] = server[r.owner][i]
      /\ server'[r.owner][n + 1] = new
  BY <1>1, <1>2
<1>4. \A m, t : new = [id |-> m, text |-> t] <=> m = nextID /\ t = r.arg.text
  OBVIOUS
<1> HIDE DEF new, n
<1>5. ASSUME NEW m, NEW t, TextOnServer(m, t)'
      PROVE  TextOnServer(m, t) \/ (m = nextID /\ t = r.arg.text)
  <2>1. PICK x \in Account : \E i \in DOMAIN server'[x] : server'[x][i] = [id |-> m, text |-> t]
    BY <1>5 DEF TextOnServer
  <2>2. PICK i \in DOMAIN server'[x] : server'[x][i] = [id |-> m, text |-> t]
    BY <2>1
  <2>3. CASE x # r.owner
    BY <1>1, <2>2, <2>3 DEF TextOnServer
  <2>4. CASE x = r.owner /\ i \in 1..n
    BY <1>2, <1>3, <2>2, <2>4 DEF TextOnServer
  <2>5. CASE x = r.owner /\ i = n + 1
    <3>1. new = [id |-> m, text |-> t]
      BY <1>3, <2>2, <2>5
    <3> QED
      BY <1>4, <3>1
  <2>6. x = r.owner => i \in 1..n \/ i = n + 1
    BY <1>2, <1>3, <2>2
  <2> QED
    BY <2>3, <2>4, <2>5, <2>6
<1>6. ASSUME NEW m, NEW t, TextOnServer(m, t) PROVE TextOnServer(m, t)'
  <2>1. PICK x \in Account : \E i \in DOMAIN server[x] : server[x][i] = [id |-> m, text |-> t]
    BY <1>6 DEF TextOnServer
  <2>2. PICK i \in DOMAIN server[x] : server[x][i] = [id |-> m, text |-> t]
    BY <2>1
  <2>3. CASE x = r.owner
    <3>1. i \in 1..n /\ i \in 1..(n + 1)
      BY <1>2, <2>2, <2>3
    <3>2. server'[r.owner][i] = [id |-> m, text |-> t] /\ i \in DOMAIN server'[r.owner]
      BY <1>3, <2>2, <2>3, <3>1
    <3> QED
      BY <3>2 DEF TextOnServer
  <2>4. CASE x # r.owner
    <3>1. server'[x] = server[x]
      BY <1>1, <2>4
    <3> QED
      BY <2>2, <3>1 DEF TextOnServer
  <2> QED
    BY <2>3, <2>4
<1>7. ASSUME NEW m, NEW t, m = nextID, t = r.arg.text PROVE TextOnServer(m, t)'
  <2>1. n + 1 \in DOMAIN server'[r.owner] /\ server'[r.owner][n + 1] = new
    BY <1>2, <1>3
  <2>2. new = [id |-> m, text |-> t]
    BY <1>7 DEF new
  <2> QED
    BY <2>1, <2>2 DEF TextOnServer
<1> QED
  BY <1>5, <1>6, <1>7

\* After an edit the note edited has its text, and the others have theirs.
LEMMA SaidAfterEditing ==
  ASSUME DeviceTypeOK, NotesApart, NEW r, ServerEditsNote(r)
  PROVE  /\ \A m, t : TextOnServer(m, t)' => \/ (m # r.arg.noteID /\ TextOnServer(m, t))
                                            \/ (m = r.arg.noteID /\ t = r.arg.text)
         /\ \A m, t : m # r.arg.noteID /\ TextOnServer(m, t) => TextOnServer(m, t)'
         /\ \A m : OnServer(m)' => OnServer(m)
<1> DEFINE id == r.arg.noteID
           text == r.arg.text
<1>1. /\ \A x \in Account :
           /\ DOMAIN server'[x] = DOMAIN server[x]
           /\ \A i \in DOMAIN server[x] :
                /\ server'[x][i].id = server[x][i].id
                /\ server[x][i].id = id => server'[x][i] = [id |-> id, text |-> text]
                /\ server[x][i].id # id => server'[x][i] = server[x][i]
  BY NoteEdited
<1>2. \A m, t : [id |-> id, text |-> text] = [id |-> m, text |-> t] => m = id /\ t = text
  OBVIOUS
<1> HIDE DEF id, text
<1>3. ASSUME NEW m, NEW t, TextOnServer(m, t)'
      PROVE  (m # id /\ TextOnServer(m, t)) \/ (m = id /\ t = text)
  <2>1. PICK x \in Account : \E i \in DOMAIN server'[x] : server'[x][i] = [id |-> m, text |-> t]
    BY <1>3 DEF TextOnServer
  <2>2. PICK i \in DOMAIN server'[x] : server'[x][i] = [id |-> m, text |-> t]
    BY <2>1
  <2>3. server'[x][i].id = m
    BY <2>2
  <2> QED
    BY <1>1, <1>2, <2>2, <2>3 DEF TextOnServer
<1>4. ASSUME NEW m, NEW t, m # id, TextOnServer(m, t) PROVE TextOnServer(m, t)'
  <2>1. PICK x \in Account : \E i \in DOMAIN server[x] : server[x][i] = [id |-> m, text |-> t]
    BY <1>4 DEF TextOnServer
  <2>2. PICK i \in DOMAIN server[x] : server[x][i] = [id |-> m, text |-> t]
    BY <2>1
  <2>3. server[x][i].id = m
    BY <2>2
  <2> QED
    BY <1>1, <1>4, <2>2, <2>3 DEF TextOnServer
<1>5. \A m : OnServer(m)' => OnServer(m)
  BY <1>1 DEF OnServer
<1> QED
  BY <1>3, <1>4, <1>5 DEF id, text

\* A deletion changes nothing for the other ids.
LEMMA SaidAfterDeleting ==
  ASSUME DeviceTypeOK, NotesApart, NEW r, ServerDeletesNote(r)
  PROVE  /\ \A m, t : TextOnServer(m, t)' => TextOnServer(m, t)
         /\ \A m, t : m # r.arg.noteID /\ TextOnServer(m, t) => TextOnServer(m, t)'
         /\ \A m : OnServer(m)' => OnServer(m) /\ m # r.arg.noteID
<1> DEFINE id == r.arg.noteID
           hit(x) == {i \in 1..Len(server[x]) : server[x][i].id = id}
           k(x) == SelectInSeq(server[x], LAMBDA n : n.id = id)
<1>1. ASSUME NEW x \in Account
      PROVE  \/ server'[x] = server[x]
             \/ \E p \in 1..Len(server[x]) :
                  server[x][p].id = id /\ server'[x] = RemoveAt(server[x], p)
  <2>1. k(x) = IF hit(x) # {} THEN Min(hit(x)) ELSE 0
    BY DEF SelectInSeq
  <2>2. hit(x) \in SUBSET Nat
    BY NotesOfServer
  <2>3. server'[x] = IF k(x) = 0 THEN server[x] ELSE RemoveAt(server[x], k(x))
    BY DEF ServerDeletesNote
  <2>4. \A i \in hit(x) : i \in 1..Len(server[x]) /\ server[x][i].id = id
    OBVIOUS
  <2> HIDE DEF k, hit
  <2>5. CASE hit(x) = {}
    BY <2>1, <2>3, <2>5
  <2>6. CASE hit(x) # {}
    BY <2>1, <2>2, <2>3, <2>4, <2>6, MinIsMember
  <2> QED
    BY <2>5, <2>6
<1> HIDE DEF id
<1>2. ASSUME NEW m, NEW t, TextOnServer(m, t)' PROVE TextOnServer(m, t)
  <2>1. PICK x \in Account : \E i \in DOMAIN server'[x] : server'[x][i] = [id |-> m, text |-> t]
    BY <1>2 DEF TextOnServer
  <2>2. PICK i \in DOMAIN server'[x] : server'[x][i] = [id |-> m, text |-> t]
    BY <2>1
  <2>3. \E j \in DOMAIN server[x] : server'[x][i] = server[x][j]
    <3>1. CASE server'[x] = server[x]
      BY <2>2, <3>1
    <3>2. ASSUME NEW p \in 1..Len(server[x]), server'[x] = RemoveAt(server[x], p)
          PROVE  \E j \in DOMAIN server[x] : server'[x][i] = server[x][j]
      BY <2>2, <3>2, ShorterElements, NotesOfServer
    <3> QED
      BY <1>1, <3>1, <3>2
  <2> QED
    BY <2>2, <2>3 DEF TextOnServer
<1>3. ASSUME NEW m, NEW t, m # id, TextOnServer(m, t) PROVE TextOnServer(m, t)'
  <2>1. PICK x \in Account : \E i \in DOMAIN server[x] : server[x][i] = [id |-> m, text |-> t]
    BY <1>3 DEF TextOnServer
  <2>2. PICK j \in DOMAIN server[x] : server[x][j] = [id |-> m, text |-> t]
    BY <2>1
  <2>3. server[x][j].id # id
    BY <1>3, <2>2
  <2>4. \E i \in DOMAIN server'[x] : server'[x][i] = server[x][j]
    <3>1. CASE server'[x] = server[x]
      BY <2>2, <3>1
    <3>2. ASSUME NEW p \in 1..Len(server[x]), server[x][p].id = id,
                 server'[x] = RemoveAt(server[x], p)
          PROVE  \E i \in DOMAIN server'[x] : server'[x][i] = server[x][j]
      <4>1. j # p /\ server[x] \in Seq(ServerNote)
        BY <2>3, <3>2, NotesOfServer
      <4> QED
        BY <2>2, <3>2, <4>1, OthersRemain
    <3> QED
      BY <1>1, <3>1, <3>2
  <2> QED
    BY <2>2, <2>4 DEF TextOnServer
<1>4. \A m : OnServer(m)' => OnServer(m) /\ m # id
  BY NoteDeleted DEF id
<1> QED
  BY <1>2, <1>3, <1>4 DEF id

\* A text said of an id is a note's.
LEMMA SaidIsThere ==
  ASSUME NEW m, NEW t, TextOnServer(m, t)
  PROVE  OnServer(m)
<1>1. PICK x \in Account : \E i \in DOMAIN server[x] : server[x][i] = [id |-> m, text |-> t]
  BY DEF TextOnServer
<1>2. PICK i \in DOMAIN server[x] : server[x][i] = [id |-> m, text |-> t]
  BY <1>1
<1>3. server[x][i].id = m
  BY <1>2
<1> QED
  BY <1>2, <1>3 DEF OnServer

\* Stamping changes the rows of one object, and their day never.
LEMMA StampedRow ==
  ASSUME NEW rows \in Seq(UserEntity), NEW obj, NEW text, NEW id,
         NEW t, t = editUserContext(rows, obj, text, id)
  PROVE  /\ DOMAIN t = DOMAIN rows
         /\ \A i \in DOMAIN rows :
              t[i] = rows[i] \/ (t[i].noteID = id /\ t[i].text = text)
<1>1. \A i \in DOMAIN rows : rows[i] \in UserEntity
  BY LenProperties
<1>2. /\ DOMAIN t = DOMAIN rows
      /\ \A i \in DOMAIN rows :
           t[i] = IF rows[i].obj = obj THEN [rows[i] EXCEPT !.text = text, !.noteID = id]
                                       ELSE rows[i]
  BY DEF editUserContext
<1>3. \A i \in DOMAIN rows : t[i] = rows[i] \/ (t[i].noteID = id /\ t[i].text = text)
  BY <1>1, <1>2 DEF UserEntity
<1> QED
  BY <1>2, <1>3

\* A merge builds a row from a note of the answer, or gives one its note's id.
LEMMA MergedRow ==
  ASSUME NEW rows \in Seq(UserEntity), NEW response \in Seq(ServerNote), NEW first,
         NEW t, t = syncLocalWithServer(rows, response, first), NEW i \in DOMAIN t
  PROVE  \/ \E k \in DOMAIN response : /\ t[i].noteID = response[k].id
                                       /\ t[i].text = response[k].text
                                       /\ t[i].day = PrintedDay(response[k].id)
         \/ /\ i \in DOMAIN rows /\ t[i].text = rows[i].text /\ t[i].day = rows[i].day
            /\ \/ t[i].noteID = rows[i].noteID
               \/ \E k \in DOMAIN response : /\ t[i].noteID = response[k].id
                                             /\ t[i].text = response[k].text
<1>1. CASE t = ResponseRows(response, first)
  <2>1. i \in DOMAIN response /\ t[i] = NewRow(first + i - 1, response[i].text,
                                              PrintedDay(response[i].id), response[i].id)
    BY <1>1 DEF ResponseRows
  <2> QED
    BY <2>1 DEF NewRow
<1>2. CASE t = updateLocalNoteIDs(rows, response)
  <2>1. i \in DOMAIN rows
    BY <1>2 DEF updateLocalNoteIDs
  <2> QED
    BY <1>2, <2>1, IdOfItsText
<1> QED
  BY <1>1, <1>2 DEF syncLocalWithServer

---------------------------------------------------------------------------
(* What a row shows of the note whose id it has.                           *)

EditTexts == {e, f}

WaitsFor(id) == \E x \in ToSet(queue.edit) : x.noteID = id

\* IdsNameTheirNotes of one row.
NamesItsNote(row) ==
  \/ ~OnServer(row.noteID)
  \/ TextOnServer(row.noteID, row.text)
  \/ WaitsFor(row.noteID)
  \/ /\ row.text \in EditTexts \/ row.day = PrintedDay(row.noteID)
     /\ \E t \in EditTexts : TextOnServer(row.noteID, t)

\* A row whose note has an edit waiting shows an edit's text, or came with a
\* merge; and only such a row shows the text the edit is to replace, so that
\* no merge gives another row the id.
RowOK(row) ==
  /\ row.noteID < nextID
  /\ uid # NoAccount => NamesItsNote(row)
  /\ WaitsFor(row.noteID) => row.text \in EditTexts \/ row.day = PrintedDay(row.noteID)
  /\ \A x \in ToSet(queue.edit) :
       TextOnServer(x.noteID, row.text)
         => row.text \in EditTexts \/ row.day = PrintedDay(x.noteID)

RowsOK == \A i \in DOMAIN notes : RowOK(notes[i])

\* What an edit that waits is to replace is the text of no other note and of
\* no new one.
EditsApart ==
  \A x \in ToSet(queue.edit) :
    /\ x.text \in EditTexts /\ x.noteID < nextID
    /\ \A y \in ToSet(queue.post) : TextOnServer(x.noteID, y.text) => y.text \in EditTexts
    /\ \A m, t : TextOnServer(x.noteID, t) /\ TextOnServer(m, t)
                   => t \in EditTexts \/ m = x.noteID

\* An answer with a new id is true, and no edit waits for it.
PostsNamed ==
  \A r \in net : r.op = "post" /\ r.done =>
    TextOnServer(r.id, r.arg.text) /\ r.id < nextID /\ ~WaitsFor(r.id)

\* What was fetched is what the server holds, for nothing else is under way.
FetchIsFresh ==
  \A r \in net : r.op = "fetch" =>
    /\ phase = "none" /\ uid \in Account /\ r.owner = uid
    /\ r.done => r.rows = server[uid]

RowInv == RowsOK /\ EditsApart /\ PostsNamed /\ FetchIsFresh

LEMMA RowsAndEdits ==
  ASSUME DeviceTypeOK
  PROVE  /\ \A i \in DOMAIN notes : notes[i] \in UserEntity /\ notes[i].noteID \in Int
         /\ \A x \in ToSet(queue.edit) : x.noteID \in Int
         /\ nextID \in Int
<1>1. \A i \in DOMAIN notes : notes[i] \in UserEntity
  BY LenProperties DEF DeviceTypeOK
<1>2. \A i \in DOMAIN queue.edit : queue.edit[i] \in EditPendingData
  BY LenProperties DEF DeviceTypeOK, Queues
<1>3. \A i \in DOMAIN notes : notes[i].noteID \in Int
  BY <1>1 DEF UserEntity
<1>4. \A x \in ToSet(queue.edit) : x.noteID \in Int
  BY <1>2 DEF ToSet, EditPendingData
<1> QED
  BY <1>1, <1>3, <1>4 DEF DeviceTypeOK

---------------------------------------------------------------------------
(* What the server does.                                                   *)

\* What a step of the server may do to what it says: never touch an id for
\* which no edit waits but to delete its note, or give out a new one, for a
\* text that is a new note's; an edit that waits may be carried out.
ServerSays ==
  /\ nextID <= nextID'
  /\ \A m, t : TextOnServer(m, t)' =>
       \/ TextOnServer(m, t)
       \/ WaitsFor(m) /\ t \in EditTexts
       \/ m = nextID /\ nextID < nextID' /\ \E y \in ToSet(queue.post) : y.text = t
  /\ \A m, t : TextOnServer(m, t) => TextOnServer(m, t)' \/ WaitsFor(m) \/ ~OnServer(m)'
  /\ \A m : OnServer(m)' => OnServer(m) \/ m = nextID

LEMMA RowsUnderServer ==
  ASSUME DeviceTypeOK, RowsOK, EditsApart, ServerSays,
         UNCHANGED <<notes, queue, uid>>, nextID' \in Int
  PROVE  RowsOK' /\ EditsApart'
<1>1. \A m : WaitsFor(m)' <=> WaitsFor(m)
  BY DEF WaitsFor
<1>2. /\ \A x \in ToSet(queue.edit) : x.noteID \in Int /\ x.noteID < nextID
      /\ nextID \in Int
  BY RowsAndEdits DEF EditsApart
<1>3. ASSUME NEW row, row.noteID \in Int, RowOK(row) PROVE RowOK(row)'
  <2>1. row.noteID < nextID'
  <3> DEFINE n2 == nextID'
  <3>1. n2 \in Int /\ nextID <= n2 /\ row.noteID < nextID
    BY <1>3 DEF ServerSays, RowOK
  <3> HIDE DEF n2
  <3>2. row.noteID < n2
    BY <1>2, <1>3, <3>1
  <3> QED
    BY <3>2 DEF n2
  <2>2. uid # NoAccount => NamesItsNote(row)'
    <3> SUFFICES ASSUME uid # NoAccount, OnServer(row.noteID)', ~WaitsFor(row.noteID)'
                 PROVE  NamesItsNote(row)'
      BY DEF NamesItsNote
    <3>1. row.noteID # nextID
      BY <1>2, <1>3 DEF RowOK
    <3>2. OnServer(row.noteID) /\ ~WaitsFor(row.noteID)
      BY <1>1, <3>1 DEF ServerSays
    <3>3. \A t : TextOnServer(row.noteID, t) => TextOnServer(row.noteID, t)'
      BY <3>2 DEF ServerSays
    <3>4. \/ TextOnServer(row.noteID, row.text)
          \/ /\ row.text \in EditTexts \/ row.day = PrintedDay(row.noteID)
             /\ \E t \in EditTexts : TextOnServer(row.noteID, t)
      BY <1>3, <3>2 DEF RowOK, NamesItsNote
    <3> QED
      BY <3>3, <3>4 DEF NamesItsNote
  <2>3. WaitsFor(row.noteID)' => row.text \in EditTexts \/ row.day = PrintedDay(row.noteID)
    BY <1>1, <1>3 DEF RowOK
  <2>4. ASSUME NEW x \in ToSet(queue.edit), TextOnServer(x.noteID, row.text)'
        PROVE  row.text \in EditTexts \/ row.day = PrintedDay(x.noteID)
    <3>1. x.noteID # nextID
      BY <1>2
    <3>2. TextOnServer(x.noteID, row.text) \/ row.text \in EditTexts
      BY <2>4, <3>1 DEF ServerSays
    <3> QED
      BY <1>3, <3>2 DEF RowOK
  <2>5. uid' = uid /\ queue' = queue
    OBVIOUS
  <2> QED
    BY <2>1, <2>2, <2>3, <2>4, <2>5 DEF RowOK
<1>4. RowsOK'
  <2>1. notes' = notes /\ \A i \in DOMAIN notes : notes[i].noteID \in Int
    BY RowsAndEdits
  <2>2. \A i \in DOMAIN notes : \A row : row = notes[i] => RowOK(row)'
    BY <1>3, <2>1 DEF RowsOK
  <2>3. ASSUME NEW i \in DOMAIN notes' PROVE RowOK(notes[i])'
    <3>1. PICK row : row = notes[i]
      OBVIOUS
    <3>2. RowOK(row)' /\ notes'[i] = row
      BY <2>1, <2>2, <2>3, <3>1
    <3> QED
      BY <3>2 DEF RowOK, NamesItsNote, WaitsFor
  <2> QED
    BY <2>3 DEF RowsOK
<1>5. EditsApart'
  <2> SUFFICES ASSUME NEW x \in ToSet(queue.edit)
               PROVE  /\ x.text \in EditTexts /\ x.noteID < nextID'
                      /\ \A y \in ToSet(queue.post) :
                           TextOnServer(x.noteID, y.text)' => y.text \in EditTexts
                      /\ \A m, t : TextOnServer(x.noteID, t)' /\ TextOnServer(m, t)'
                                     => t \in EditTexts \/ m = x.noteID
    BY DEF EditsApart
  <2>1. x.text \in EditTexts
    BY DEF EditsApart
  <2>2. x.noteID < nextID'
    <3> DEFINE n2 == nextID'
    <3>1. n2 \in Int /\ nextID <= n2
      BY DEF ServerSays
    <3> HIDE DEF n2
    <3>2. x.noteID < n2
      BY <1>2, <3>1
    <3> QED
      BY <3>2 DEF n2
  <2>3. x.noteID # nextID
    BY <1>2
  <2>4. \A t : TextOnServer(x.noteID, t)' => TextOnServer(x.noteID, t) \/ t \in EditTexts
    BY <2>3 DEF ServerSays
  <2>5. \A y \in ToSet(queue.post) : TextOnServer(x.noteID, y.text)' => y.text \in EditTexts
    BY <2>4 DEF EditsApart
  <2>6. ASSUME NEW m, NEW t, TextOnServer(x.noteID, t)', TextOnServer(m, t)'
        PROVE  t \in EditTexts \/ m = x.noteID
    <3>1. CASE t \in EditTexts
      BY <3>1
    <3>2. CASE t \notin EditTexts
      <4>1. TextOnServer(x.noteID, t)
        BY <2>4, <2>6, <3>2
      <4>2. TextOnServer(m, t) \/ \E y \in ToSet(queue.post) : y.text = t
        BY <2>6, <3>2 DEF ServerSays
      <4> QED
        BY <3>2, <4>1, <4>2 DEF EditsApart
    <3> QED
      BY <3>1, <3>2
  <2> QED
    BY <2>1, <2>2, <2>5, <2>6
<1> QED
  BY <1>4, <1>5

\* A post under way keeps the server to posts, a fetch keeps it from all else.
LEMMA OneKindUnderWay ==
  ASSUME IInv, AppliedInv, FetchIsFresh, NEW r \in net
  PROVE  /\ r \in Request
         /\ r.op \in Kind => /\ r \in InFlight /\ phase = r.op
                             /\ r.arg \in ToSet(queue[r.op])
                             /\ \A q \in net : q.op = r.op
         /\ r.op = "post" => r.owner \in Account
<1>1. r.by = "launch" /\ (r.op = "post" => r.owner \in Account) /\ r \in Request
  BY DEF AppliedInv, OwnRequests, IInv, LaunchInv, NetOK
<1>2. ASSUME r.op \in Kind
      PROVE  /\ r \in InFlight /\ phase = r.op /\ r.arg \in ToSet(queue[r.op])
             /\ \A q \in net : q.op = r.op
  <2>1. r \in InFlight
    BY <1>1, <1>2 DEF InFlight
  <2>2. phase = r.op /\ r.arg \in ToSet(queue[r.op])
    BY <2>1, CarriesItsEntry DEF ToSet
  <2>3. ASSUME NEW q \in net PROVE q.op = r.op
    <3>1. q.by = "launch" /\ q.op \in Kind \cup {"fetch"}
      BY DEF AppliedInv, OwnRequests
    <3>2. q.op # "fetch"
      BY <1>2, <2>2 DEF FetchIsFresh, Kind
    <3>3. q \in InFlight
      BY <3>1, <3>2 DEF InFlight
    <3> QED
      BY <2>2, <3>3, CarriesItsEntry
  <2> QED
    BY <2>1, <2>2, <2>3
<1> QED
  BY <1>1, <1>2

LEMMA AddingKeepsNames ==
  ASSUME IInv, AppliedInv, RowInv, NEW r \in net, ServerAddsNote(r), UNCHANGED chainVars
  PROVE  RowInv'
<1>0. DeviceTypeOK /\ NotesApart /\ nextID \in Int
  BY DEF IInv, LaunchInv, AppliedInv, DeviceTypeOK
<1>1. /\ r \in Request /\ r.owner \in Account /\ r.op = "post"
      /\ r.arg \in ToSet(queue.post) /\ \A q \in net : q.op = "post"
  <2>1. r.op = "post" /\ r.op \in Kind
    BY DEF ServerAddsNote, Reaches, Kind
  <2> QED
    BY <2>1, OneKindUnderWay DEF RowInv
<1>2. /\ \A m, t : TextOnServer(m, t)' <=> TextOnServer(m, t) \/ (m = nextID /\ t = r.arg.text)
      /\ nextID' = nextID + 1 /\ \A m : OnServer(m)' => OnServer(m) \/ m = nextID
  BY <1>0, <1>1, SaidAfterAdding, NoteAdded
<1> DEFINE s == [r EXCEPT !.done = TRUE, !.id = nextID, !.rows = <<>>]
<1>3. s.id = nextID /\ s.arg = r.arg /\ s.op = r.op
  BY <1>1 DEF Request
<1>4. /\ net' = (net \ {r}) \cup {s}
      /\ UNCHANGED <<queue, notes, uid, phase>>
  BY DEF ServerAddsNote, Answer, storeVars, chainVars
<1> HIDE DEF s
<1> DEFINE n2 == nextID'
<1>5. n2 = nextID + 1
  BY <1>2
<1> HIDE DEF n2
<1>6. n2 \in Int /\ nextID <= n2 /\ nextID < n2 /\ \A m \in Int : m < nextID => m < n2
  BY <1>0, <1>5
<1>7. ServerSays
  BY <1>1, <1>2, <1>6 DEF ServerSays, n2
<1>8. RowsOK' /\ EditsApart'
  BY <1>0, <1>4, <1>6, <1>7, RowsUnderServer DEF RowInv, n2
<1>9. \A q \in net : q.id \in Int
  BY DEF IInv, LaunchInv, NetOK, Request
<1>10. \A m : WaitsFor(m)' <=> WaitsFor(m)
  BY <1>4 DEF WaitsFor
<1>11. ASSUME NEW q \in net', q.op = "post", q.done
       PROVE  TextOnServer(q.id, q.arg.text)' /\ q.id < n2 /\ ~WaitsFor(q.id)
  <2>1. CASE q \in net
    BY <1>2, <1>6, <1>9, <1>11, <2>1 DEF RowInv, PostsNamed
  <2>2. CASE q = s
    <3>1. ~WaitsFor(nextID)
      BY <1>0, RowsAndEdits DEF RowInv, EditsApart, WaitsFor
    <3> QED
      BY <1>2, <1>3, <1>6, <2>2, <3>1
  <2> QED
    BY <1>4, <2>1, <2>2
<1>12. PostsNamed'
  BY <1>10, <1>11 DEF PostsNamed, n2
<1>13. \A q \in net' : q.op # "fetch"
  BY <1>1, <1>3, <1>4
<1> QED
  BY <1>8, <1>12, <1>13 DEF RowInv, FetchIsFresh

LEMMA ChangingKeepsNames ==
  ASSUME IInv, AppliedInv, RowInv, NEW r \in net, ServerEditsNote(r) \/ ServerDeletesNote(r),
         UNCHANGED chainVars
  PROVE  RowInv'
<1>0. DeviceTypeOK /\ NotesApart /\ nextID \in Int
  BY DEF IInv, LaunchInv, AppliedInv, DeviceTypeOK
<1>1. /\ r \in Request /\ r.op \in {"edit", "delete"}
      /\ r.arg \in ToSet(queue[r.op]) /\ \A q \in net : q.op = r.op
  <2>1. r.op \in {"edit", "delete"} /\ r.op \in Kind
    BY DEF ServerEditsNote, ServerDeletesNote, Reaches, Kind
  <2> QED
    BY <2>1, OneKindUnderWay DEF RowInv
<1>2. PICK id, rows : Answer(r, id, rows)
  BY DEF ServerEditsNote, ServerDeletesNote
<1> DEFINE s == [r EXCEPT !.done = TRUE, !.id = id, !.rows = rows]
<1>3. s.op = r.op
  BY <1>1 DEF Request
<1>4. /\ net' = (net \ {r}) \cup {s}
      /\ UNCHANGED <<queue, notes, uid, phase, nextID>>
  BY <1>2 DEF Answer, storeVars, chainVars, ServerEditsNote, ServerDeletesNote
<1> HIDE DEF s
<1>5. \A q \in net' : q.op \in {"edit", "delete"}
  BY <1>1, <1>3, <1>4
<1>6. ServerSays
  <2>1. CASE ServerEditsNote(r)
    <3>1. r.op = "edit"
      BY <2>1 DEF ServerEditsNote, Reaches
    <3>2. WaitsFor(r.arg.noteID) /\ r.arg.text \in EditTexts
      BY <1>1, <3>1 DEF WaitsFor, RowInv, EditsApart
    <3>3. /\ \A m, t : TextOnServer(m, t)' => \/ (m # r.arg.noteID /\ TextOnServer(m, t))
                                              \/ (m = r.arg.noteID /\ t = r.arg.text)
          /\ \A m, t : m # r.arg.noteID /\ TextOnServer(m, t) => TextOnServer(m, t)'
          /\ \A m : OnServer(m)' => OnServer(m)
      BY <1>0, <2>1, SaidAfterEditing
    <3> QED
      BY <1>0, <1>4, <3>2, <3>3 DEF ServerSays
  <2>2. CASE ServerDeletesNote(r)
    BY <1>0, <1>4, <2>2, SaidAfterDeleting DEF ServerSays
  <2> QED
    BY <2>1, <2>2
<1>7. RowsOK' /\ EditsApart'
  BY <1>0, <1>4, <1>6, RowsUnderServer DEF RowInv
<1> QED
  BY <1>5, <1>7 DEF RowInv, PostsNamed, FetchIsFresh

\* The invariant's part on rows and queue says nothing of the network.
LEMMA SameNames ==
  ASSUME RowInv, UNCHANGED <<notes, queue, server, nextID, uid>>
  PROVE  /\ RowsOK' /\ EditsApart'
         /\ \A m, t : TextOnServer(m, t)' <=> TextOnServer(m, t)
         /\ \A m : WaitsFor(m)' <=> WaitsFor(m)
<1>1. /\ \A m, t : TextOnServer(m, t)' <=> TextOnServer(m, t)
      /\ \A m : OnServer(m)' <=> OnServer(m)
      /\ \A m : WaitsFor(m)' <=> WaitsFor(m)
  BY DEF TextOnServer, OnServer, WaitsFor
<1>2. EditsApart'
  BY <1>1 DEF RowInv, EditsApart
<1>3. RowsOK'
  BY <1>1 DEF RowInv, RowsOK, RowOK, NamesItsNote
<1> QED
  BY <1>1, <1>2, <1>3

LEMMA ListingKeepsNames ==
  ASSUME IInv, AppliedInv, RowInv, NEW r \in net, ServerListsNotes(r), UNCHANGED chainVars
  PROVE  RowInv'
<1>1. r \in Request /\ r.op = "fetch" /\ phase = "none" /\ uid \in Account /\ r.owner = uid
  BY OneKindUnderWay DEF ServerListsNotes, Reaches, RowInv, FetchIsFresh
<1> DEFINE s == [r EXCEPT !.done = TRUE, !.id = 0, !.rows = server[uid]]
<1>2. s.op = r.op /\ s.rows = server[uid] /\ s.owner = r.owner
  BY <1>1 DEF Request
<1>3. /\ net' = (net \ {r}) \cup {s}
      /\ UNCHANGED <<queue, notes, uid, phase, server, nextID>>
  BY <1>1 DEF ServerListsNotes, Answer, storeVars, remoteVars, chainVars
<1> HIDE DEF s
<1>4. /\ RowsOK' /\ EditsApart'
      /\ \A m, t : TextOnServer(m, t)' <=> TextOnServer(m, t)
      /\ \A m : WaitsFor(m)' <=> WaitsFor(m)
  BY <1>3, SameNames
<1>5. PostsNamed'
  BY <1>1, <1>2, <1>3, <1>4 DEF RowInv, PostsNamed
<1>6. FetchIsFresh'
  BY <1>1, <1>2, <1>3 DEF RowInv, FetchIsFresh
<1> QED
  BY <1>4, <1>5, <1>6 DEF RowInv

\* A step that only takes requests away.
LEMMA FewerKeepNames ==
  ASSUME RowInv, net' \subseteq net, UNCHANGED <<queue, notes, uid, server, nextID>>,
         phase' = phase \/ net' = {}
  PROVE  RowInv'
<1>1. /\ RowsOK' /\ EditsApart'
      /\ \A m, t : TextOnServer(m, t)' <=> TextOnServer(m, t)
      /\ \A m : WaitsFor(m)' <=> WaitsFor(m)
  BY SameNames
<1>2. PostsNamed'
  BY <1>1 DEF RowInv, PostsNamed
<1>3. FetchIsFresh'
  BY DEF RowInv, FetchIsFresh
<1> QED
  BY <1>1, <1>2, <1>3 DEF RowInv

---------------------------------------------------------------------------
(* What the handlers write into the rows.                                  *)

LEMMA StampKeepsNames ==
  ASSUME IInv, AppliedInv, RowInv, NEW r \in net, LaunchRequestSucceeds(r)
  PROVE  RowInv'
<1>0. DeviceTypeOK
  BY DEF IInv, LaunchInv
<1>1. /\ r \in InFlight /\ r.done /\ net' = net \ {r}
      /\ UNCHANGED <<queue, uid, server, nextID, phase>>
  BY DEF LaunchRequestSucceeds, Waiting, Delivered, InFlight, remoteVars
<1>2. CASE notes' = notes
  BY <1>1, <1>2, FewerKeepNames
<1>3. CASE notes' # notes
  <2>1. /\ r.op = "post"
        /\ \E obj : notes' = editUserContext(notes, obj, r.arg.text, r.id)
    BY <1>3 DEF LaunchRequestSucceeds
  <2>2. PICK obj : notes' = editUserContext(notes, obj, r.arg.text, r.id)
    BY <2>1
  <2>3. /\ TextOnServer(r.id, r.arg.text) /\ r.id < nextID /\ ~WaitsFor(r.id)
        /\ r.arg \in ToSet(queue.post)
    BY <1>1, <2>1, OneKindUnderWay DEF RowInv, PostsNamed, Kind
  <2>4. \A row : row.noteID = r.id /\ row.text = r.arg.text => RowOK(row)
    BY <2>3 DEF RowOK, NamesItsNote, RowInv, EditsApart
  <2>5. notes \in Seq(UserEntity)
    BY <1>0 DEF DeviceTypeOK
  <2>6. /\ DOMAIN notes' = DOMAIN notes
        /\ \A i \in DOMAIN notes :
             notes'[i] = notes[i] \/ (notes'[i].noteID = r.id /\ notes'[i].text = r.arg.text)
    BY <2>2, <2>5, StampedRow
  <2>7. \A i \in DOMAIN notes' : RowOK(notes'[i])
    BY <2>4, <2>6 DEF RowInv, RowsOK
  <2>8. /\ \A m, t : TextOnServer(m, t)' <=> TextOnServer(m, t)
        /\ \A m : OnServer(m)' <=> OnServer(m)
        /\ \A m : WaitsFor(m)' <=> WaitsFor(m)
    BY <1>1 DEF TextOnServer, OnServer, WaitsFor
  <2>9. RowsOK'
    BY <1>1, <2>7, <2>8 DEF RowsOK, RowOK, NamesItsNote
  <2>10. EditsApart'
    BY <1>1, <2>8 DEF RowInv, EditsApart
  <2>11. PostsNamed'
    BY <1>1, <2>8 DEF RowInv, PostsNamed
  <2>12. FetchIsFresh'
    BY <1>1 DEF RowInv, FetchIsFresh
  <2> QED
    BY <2>9, <2>10, <2>11, <2>12 DEF RowInv
<1> QED
  BY <1>2, <1>3

LEMMA MergeKeepsNames ==
  ASSUME IInv, AppliedInv, RowInv, NEW r \in net, FetchSucceeds(r)
  PROVE  RowInv'
<1>0. DeviceTypeOK /\ NotesApart
  BY DEF IInv, LaunchInv, AppliedInv
<1>1. /\ r.op = "fetch" /\ r.done /\ net' = net \ {r}
      /\ notes' = syncLocalWithServer(notes, r.rows, nextObj)
      /\ UNCHANGED <<queue, uid, server, nextID, phase>>
  BY DEF FetchSucceeds, Fetching, Delivered, remoteVars, chainVars
<1>2. uid \in Account /\ r.rows = server[uid]
  BY <1>1 DEF RowInv, FetchIsFresh
<1>3. /\ server[uid] \in Seq(ServerNote)
      /\ \A k \in DOMAIN server[uid] : server[uid][k] \in ServerNote
  BY <1>0, <1>2, NotesOfServer, LenProperties
<1>4. \A k \in DOMAIN server[uid] :
        /\ TextOnServer(server[uid][k].id, server[uid][k].text)
        /\ server[uid][k].id < nextID
  <2>1. \A n \in ServerNote : n = [id |-> n.id, text |-> n.text]
    BY DEF ServerNote
  <2> QED
    BY <1>0, <1>2, <1>3, <2>1 DEF TextOnServer, NotesApart
<1>5. ASSUME NEW row, NEW k \in DOMAIN server[uid], row.noteID = server[uid][k].id,
             row.text = server[uid][k].text, row.day = PrintedDay(server[uid][k].id)
      PROVE  RowOK(row)
  <2>1. TextOnServer(row.noteID, row.text) /\ row.noteID < nextID
    BY <1>4, <1>5
  <2>2. row.day = PrintedDay(row.noteID)
    BY <1>5
  <2> QED
    BY <2>1, <2>2 DEF RowOK, NamesItsNote, RowInv, EditsApart
<1>6. ASSUME NEW row, NEW old, RowOK(old), row.text = old.text, row.day = old.day,
             NEW k \in DOMAIN server[uid], row.noteID = server[uid][k].id,
             row.text = server[uid][k].text
      PROVE  RowOK(row)
  <2>1. TextOnServer(row.noteID, row.text) /\ row.noteID < nextID
    BY <1>4, <1>6
  <2> QED
    BY <1>6, <2>1 DEF RowOK, NamesItsNote, WaitsFor
<1>7. ASSUME NEW row, NEW old, RowOK(old), row.text = old.text, row.day = old.day,
             row.noteID = old.noteID
      PROVE  RowOK(row)
  BY <1>7 DEF RowOK, NamesItsNote
<1>8. ASSUME NEW i \in DOMAIN notes' PROVE RowOK(notes'[i])
  <2>1. notes \in Seq(UserEntity)
    BY <1>0 DEF DeviceTypeOK
  <2> DEFINE t == notes'
  <2>2. t = syncLocalWithServer(notes, server[uid], nextObj) /\ i \in DOMAIN t
    BY <1>1, <1>2, <1>8
  <2> HIDE DEF t
  <2>3. \/ \E k \in DOMAIN server[uid] : /\ t[i].noteID = server[uid][k].id
                                         /\ t[i].text = server[uid][k].text
                                         /\ t[i].day = PrintedDay(server[uid][k].id)
        \/ /\ i \in DOMAIN notes /\ t[i].text = notes[i].text /\ t[i].day = notes[i].day
           /\ \/ t[i].noteID = notes[i].noteID
              \/ \E k \in DOMAIN server[uid] : /\ t[i].noteID = server[uid][k].id
                                               /\ t[i].text = server[uid][k].text
    <3> DEFINE answer == server[uid]
    <3>1. answer \in Seq(ServerNote) /\ t = syncLocalWithServer(notes, answer, nextObj)
      BY <1>3, <2>2
    <3> HIDE DEF answer
    <3>2. \/ \E k \in DOMAIN answer : /\ t[i].noteID = answer[k].id
                                      /\ t[i].text = answer[k].text
                                      /\ t[i].day = PrintedDay(answer[k].id)
          \/ /\ i \in DOMAIN notes /\ t[i].text = notes[i].text /\ t[i].day = notes[i].day
             /\ \/ t[i].noteID = notes[i].noteID
                \/ \E k \in DOMAIN answer : /\ t[i].noteID = answer[k].id
                                             /\ t[i].text = answer[k].text
      BY <2>1, <2>2, <3>1, MergedRow
    <3> QED
      BY <3>2 DEF answer
  <2>4. \A j \in DOMAIN notes : RowOK(notes[j])
    BY DEF RowInv, RowsOK
  <2>5. RowOK(t[i])
    BY <1>5, <1>6, <1>7, <2>3, <2>4
  <2> QED
    BY <2>5 DEF t
<1>9. /\ \A m, t : TextOnServer(m, t)' <=> TextOnServer(m, t)
      /\ \A m : OnServer(m)' <=> OnServer(m)
      /\ \A m : WaitsFor(m)' <=> WaitsFor(m)
  BY <1>1 DEF TextOnServer, OnServer, WaitsFor
<1>10. RowsOK'
  BY <1>1, <1>8, <1>9 DEF RowsOK, RowOK, NamesItsNote
<1>11. EditsApart'
  BY <1>1, <1>9 DEF RowInv, EditsApart
<1>12. PostsNamed'
  BY <1>1, <1>9 DEF RowInv, PostsNamed
<1>13. FetchIsFresh'
  BY <1>1 DEF RowInv, FetchIsFresh
<1> QED
  BY <1>10, <1>11, <1>12, <1>13 DEF RowInv

---------------------------------------------------------------------------
(* What a drain that starts sends, and one that ends drops.                *)

LEMMA NothingFetched ==
  ASSUME OwnRequests, InFlight = {}, \A r \in net : r.op # "fetch",
         uid \in Account \cup {NoAccount}, NEW q \in Queues,
         \/ postDeletePendingData(q) \/ postEditedPendingData(q) \/ postPendingUserNotes(q)
         \/ Idle /\ UNCHANGED net
  PROVE  \A r \in net' : /\ ~r.done
                         /\ r.op = "fetch" => phase' = "none" /\ uid \in Account /\ r.owner = uid
<1>0. net = {}
  BY DEF OwnRequests, InFlight
<1>1. ASSUME NEW kind \in Kind, Drain(kind, q[kind])
      PROVE  \A r \in net' : ~r.done /\ r.op # "fetch"
  <2> DEFINE rq(i) == NewRequest("launch", 0, i, kind, q[kind][i])
  <2>1. net' = net \cup {rq(i) : i \in DOMAIN q[kind]}
    BY <1>1 DEF Drain
  <2>2. \A i : rq(i).op = kind /\ ~rq(i).done
    BY DEF NewRequest
  <2> HIDE DEF rq
  <2> QED
    BY <1>0, <2>1, <2>2 DEF Kind
<1>2. CASE Idle /\ UNCHANGED net
  BY <1>0, <1>2
<1>3. CASE /\ uid # NoAccount
           /\ Idle /\ net' = net \cup {NewRequest("launch", 0, 1, "fetch", NoArg)}
  <2> DEFINE t == NewRequest("launch", 0, 1, "fetch", NoArg)
  <2>1. ~t.done /\ t.owner = uid
    BY DEF NewRequest
  <2> HIDE DEF t
  <2>2. net' = net \cup {t} /\ phase' = "none" /\ uid \in Account
    BY <1>3 DEF t, Idle
  <2> QED
    BY <1>0, <2>1, <2>2
<1> QED
  BY <1>1, <1>2, <1>3
     DEF postDeletePendingData, postEditedPendingData, postPendingUserNotes, Kind

\* What is fetched once a drain has started is asked for afresh.
LEMMA NamesOfANewDrain ==
  ASSUME \A r \in net' : /\ ~r.done
                         /\ r.op = "fetch" => phase' = "none" /\ uid \in Account /\ r.owner = uid,
         uid' = uid
  PROVE  PostsNamed' /\ FetchIsFresh'
  BY DEF PostsNamed, FetchIsFresh

LEMMA LaunchKeepsNames ==
  ASSUME IInv, AppliedInv, RowInv, Launch
  PROVE  RowInv'
<1>1. /\ net = {} /\ InFlight = {} /\ queue \in Queues /\ uid \in Account \cup {NoAccount}
      /\ UNCHANGED <<notes, queue, server, nextID, uid>>
  BY DEF Launch, IInv, LaunchInv, DeviceTypeOK, InFlight, storeVars, remoteVars
<1>2. PostsNamed' /\ FetchIsFresh'
  BY <1>1, NothingFetched, NamesOfANewDrain DEF Launch, AppliedInv
<1>3. RowsOK' /\ EditsApart'
  BY <1>1, SameNames
<1> QED
  BY <1>2, <1>3 DEF RowInv

\* An edit that is dropped was carried out, or another edit of its note was.
LEMMA NotifyKeepsNames ==
  ASSUME IInv, AppliedInv, RowInv, Notify
  PROVE  RowInv'
<1>1. /\ phase \in Kind /\ InFlight = {} /\ queue \in Queues
      /\ queue'[phase] = removeAtOffsets(queue[phase], indicesToRemove)
      /\ \A k \in Kind \ {phase} : queue'[k] = queue[k]
  BY WritesBack
<1>2. UNCHANGED <<notes, server, nextID, uid>>
  BY DEF Notify, NotifyDeletes, NotifyEdits, NotifyPosts, remoteVars
<1>3. \A k \in Kind : ToSet(queue'[k]) \subseteq ToSet(queue[k])
  <2> TAKE k \in Kind
  <2>1. CASE k = phase
    <3>1. queue[phase] \in Seq(Entry)
      BY <1>1, QueueOfKind
    <3> QED
      BY <1>1, <2>1, <3>1, LeftWasThere DEF ToSet
  <2>2. CASE k # phase
    BY <1>1, <2>2
  <2> QED
    BY <2>1, <2>2
<1>4. ToSet(queue'.edit) \subseteq ToSet(queue.edit) /\ ToSet(queue'.post) \subseteq ToSet(queue.post)
  BY <1>3 DEF Kind
<1>5. PostsNamed' /\ FetchIsFresh'
  <2>1. OwnRequests /\ uid \in Account \cup {NoAccount} /\ \A r \in net : r.op # "fetch"
    BY <1>1 DEF AppliedInv, IInv, LaunchInv, DeviceTypeOK, RowInv, FetchIsFresh, Kind
  <2>2. Written \in Queues
    BY <1>1, NotifyWrites DEF IInv, Notify, NotifyDeletes, NotifyEdits, NotifyPosts
  <2>3. \/ postEditedPendingData(Written) \/ postPendingUserNotes(Written)
        \/ Idle /\ UNCHANGED net
    BY DEF Notify, NotifyDeletes, NotifyEdits, NotifyPosts
  <2>4. \A r \in net' : /\ ~r.done
                        /\ r.op = "fetch" => phase' = "none" /\ uid \in Account /\ r.owner = uid
    BY <1>1, <2>1, <2>2, <2>3, NothingFetched
  <2> QED
    BY <1>2, <2>4, NamesOfANewDrain
<1>6. /\ \A m, t : TextOnServer(m, t)' <=> TextOnServer(m, t)
      /\ \A m : OnServer(m)' <=> OnServer(m)
      /\ \A m : WaitsFor(m)' => WaitsFor(m)
  BY <1>2, <1>4 DEF TextOnServer, OnServer, WaitsFor
<1>7. EditsApart'
  BY <1>2, <1>4, <1>6 DEF RowInv, EditsApart
<1>8. ASSUME NEW m, WaitsFor(m), ~WaitsFor(m)', OnServer(m)
      PROVE  \E t \in EditTexts : TextOnServer(m, t)
  <2>1. PICK x \in ToSet(queue.edit) : x.noteID = m
    BY <1>8 DEF WaitsFor
  <2>2. x \notin ToSet(queue'.edit)
    BY <1>8, <2>1 DEF WaitsFor
  <2>3. Next
    BY DEF Next, LaunchStep
  <2>4. Applied("edit", x)
    BY <2>2, <2>3, DroppedWasApplied DEF Kind
  <2>5. PICK y \in ToSet(queue.edit) : y.noteID = m /\ TextOnServer(m, y.text)
    BY <1>8, <2>1, <2>4 DEF Applied
  <2> QED
    BY <2>5 DEF RowInv, EditsApart
<1>9. \A i \in DOMAIN notes : RowOK(notes[i])
  BY DEF RowInv, RowsOK
<1>10. ASSUME NEW i \in DOMAIN notes PROVE uid # NoAccount => NamesItsNote(notes[i])'
  <2>1. CASE WaitsFor(notes[i].noteID) /\ ~WaitsFor(notes[i].noteID)' /\ OnServer(notes[i].noteID)
    <3> DEFINE m == notes[i].noteID
    <3>1. m = notes'[i].noteID /\ notes[i] = notes'[i]
      BY <1>2
    <3>2. PICK n : n = m
      OBVIOUS
    <3>3. WaitsFor(n) /\ ~WaitsFor(n)' /\ OnServer(n)
      BY <2>1, <3>1, <3>2 DEF WaitsFor
    <3>4. \E t \in EditTexts : TextOnServer(n, t)
      BY <1>8, <3>3
    <3>5. notes[i].text \in EditTexts \/ notes[i].day = PrintedDay(n)
      BY <1>9, <2>1, <3>2 DEF RowOK
    <3> QED
      BY <1>2, <1>6, <3>1, <3>2, <3>4, <3>5 DEF NamesItsNote
  <2>2. CASE ~WaitsFor(notes[i].noteID) \/ WaitsFor(notes[i].noteID)' \/ ~OnServer(notes[i].noteID)
    BY <1>2, <1>6, <1>9, <2>2 DEF RowOK, NamesItsNote
  <2> QED
    BY <2>1, <2>2
<1>11. RowsOK'
  BY <1>2, <1>4, <1>6, <1>9, <1>10 DEF RowsOK, RowOK
<1> QED
  BY <1>5, <1>7, <1>11 DEF RowInv

LEMMA RowInvStays ==
  ASSUME IInv, AppliedInv, RowInv, [Next]_launchVars
  PROVE  RowInv'
<1>1. CASE Launch
  BY <1>1, LaunchKeepsNames
<1>2. CASE Notify
  BY <1>2, NotifyKeepsNames
<1>3. ASSUME NEW r \in net, LaunchRequestSucceeds(r) PROVE RowInv'
  BY <1>3, StampKeepsNames
<1>4. ASSUME NEW r \in net, FetchSucceeds(r) PROVE RowInv'
  BY <1>4, MergeKeepsNames
<1>5. ASSUME NEW r \in net, LaunchRequestFails(r) \/ FetchFails(r) PROVE RowInv'
  BY <1>5, FewerKeepNames DEF LaunchRequestFails, FetchFails, storeVars, remoteVars, chainVars
<1>6. CASE ServerStep /\ UNCHANGED chainVars
  <2>1. PICK r \in net : \/ ServerAddsNote(r) \/ ServerEditsNote(r) \/ ServerDeletesNote(r)
                         \/ ServerListsNotes(r)
    BY <1>6 DEF ServerStep, ServerDeletesUser, ServerRegisters, Reaches, AppliedInv,
       OwnRequests, Kind
  <2> QED
    BY <1>6, <2>1, AddingKeepsNames, ChangingKeepsNames, ListingKeepsNames
<1>7. CASE Kill
  BY <1>7, FewerKeepNames DEF Kill, ProcessEnds, Idle, storeVars, remoteVars
<1>8. CASE Flip \/ UNCHANGED launchVars
  BY <1>8, FewerKeepNames
     DEF Flip, NetworkChanges, launchVars, deviceVars, storeVars, remoteVars, chainVars
<1> QED
  BY <1>1, <1>2, <1>3, <1>4, <1>5, <1>6, <1>7, <1>8 DEF Next, LaunchStep

\* A row with an id shows what the server keeps under that id, but for the
\* note's edits: whatever is deleted, edited, posted, stamped and merged, in
\* whatever order requests are carried out and answered, and whatever is lost or
\* killed; if the server numbers its notes, and the text an edit is to replace is
\* no other note's, so that the merge by text can tell them apart
\* (postPendingUserNotes' handler, updateLocalNoteIDs and the notify blocks).
THEOREM RowsShowTheirNotes ==
  Spec /\ NotesApart /\ RowsOK /\ EditsApart => []IdsNameTheirNotes
<1>1. Init /\ NotesApart => AppliedInv
  BY DEF Init, AppliedInv, OwnRequests, InFlight, Kind
<1>2. Init /\ RowsOK /\ EditsApart => RowInv
  BY DEF Init, RowInv, PostsNamed, FetchIsFresh
<1>3. IInv /\ AppliedInv /\ [Next]_launchVars => AppliedInv'
  BY StepKeepsApplied
<1>4. IInv /\ AppliedInv /\ RowInv /\ [Next]_launchVars => RowInv'
  BY RowInvStays
<1>5. RowInv => IdsNameTheirNotes
  BY DEF RowInv, RowsOK, RowOK, NamesItsNote, WaitsFor, EditTexts, IdsNameTheirNotes
<1> QED
  BY <1>1, <1>2, <1>3, <1>4, <1>5, InvariantHolds, PTL DEF Spec

---------------------------------------------------------------------------
(* What merging answers does to the rows a phone starts with.              *)

\* Every short list of rows and every short answer have ids of their own.
LEMMA ShortListsAreApart ==
  ASSUME \E T \in SUBSET Text : Cardinality(T) = 3,
         NEW rows \in RowLists, NEW response \in Answers
  PROVE  /\ rows \in Seq(UserEntity) /\ response \in Seq(ServerNote)
         /\ IDsApart(rows, response)
<1>1. ThreeTexts \subseteq Text
  BY DEF ThreeTexts
<1>2. PICK t \in Upto(3, ThreeTexts) : rows = [i \in DOMAIN t |-> NewRow(i, t[i], i, Nil)]
  BY DEF RowLists
<1>3. PICK m \in 0..3 : t \in [1..m -> ThreeTexts]
  BY <1>2 DEF Upto
<1>4. \A i \in 1..m : NewRow(i, t[i], i, Nil) \in UserEntity /\ NewRow(i, t[i], i, Nil).noteID = Nil
  BY <1>1, <1>3 DEF NewRow, UserEntity, Nil
<1>5. rows \in [1..m -> UserEntity] /\ \A i \in DOMAIN rows : rows[i].noteID = Nil
  BY <1>2, <1>3, <1>4
<1>6. PICK u \in Upto(3, ThreeTexts) :
        response = [i \in DOMAIN u |-> [id |-> 10 + i, text |-> u[i]]]
  BY DEF Answers
<1>7. PICK n \in 0..3 : u \in [1..n -> ThreeTexts]
  BY <1>6 DEF Upto
<1>8. \A i \in 1..n : [id |-> 10 + i, text |-> u[i]] \in ServerNote
  BY <1>1, <1>7 DEF ServerNote
<1>9. response \in [1..n -> ServerNote] /\ \A i \in DOMAIN response : response[i].id = 10 + i
  BY <1>6, <1>7, <1>8
<1>10. \A i, j \in DOMAIN response : response[i].id = response[j].id => i = j
  BY <1>9
<1> QED
  BY <1>3, <1>5, <1>7, <1>9, <1>10 DEF IDsApart

\* The rows of the phone have ids of their own, those of the answers asked
\* about among them.
RowsApart == \A response \in Answers : IDsApart(notes, response)

\* A short answer is an answer.
LEMMA ShortAnswersAreAnswers ==
  ASSUME \E T \in SUBSET Text : Cardinality(T) = 3, NEW response \in Answers
  PROVE  response \in Seq(ServerNote)
<1>1. <<>> \in RowLists
  <2>1. <<>> \in [1..0 -> ThreeTexts] /\ 0 \in 0..3
    OBVIOUS
  <2>2. <<>> \in Upto(3, ThreeTexts)
    BY <2>1 DEF Upto
  <2>3. <<>> = [i \in DOMAIN <<>> |-> NewRow(i, <<>>[i], i, Nil)]
    OBVIOUS
  <2> QED
    BY <2>2, <2>3 DEF RowLists
<1> QED
  BY <1>1, ShortListsAreApart

\* Only a kill stops the app, so that before the first kill a phone that is not
\* running has the rows it was left with.
AtTheStart ==
  /\ left["kill"] <= Limit["kill"]
  /\ ~running /\ left["kill"] = Limit["kill"] => RowsApart

\* A step that leaves the app not running is a kill, or leaves the rows alone.
LEMMA OnlyKillsStop ==
  ASSUME IInv, [Next]_launchVars
  PROVE  \/ running'
         \/ Kill
         \/ UNCHANGED <<notes, running>> /\ left'["kill"] = left["kill"]
<1>0. DeviceTypeOK /\ (~running => net = {} /\ phase = "none")
  BY DEF IInv, LaunchInv
<1>1. CASE Launch
  BY <1>1 DEF Launch
<1>2. CASE LaunchStep
  <2>1. running' = running
    BY <1>2 DEF LaunchStep, LaunchRequestSucceeds, LaunchRequestFails, FetchSucceeds, FetchFails,
             Notify, NotifyDeletes, NotifyEdits, NotifyPosts
  <2>2. running
    BY <1>0, <1>2 DEF LaunchStep, Notify, NotifyDeletes, NotifyEdits, NotifyPosts
  <2> QED
    BY <2>1, <2>2
<1>3. CASE ServerStep /\ UNCHANGED chainVars
  BY <1>3 DEF ServerStep, ServerAddsNote, ServerEditsNote, ServerDeletesNote, ServerListsNotes,
           ServerDeletesUser, ServerRegisters, Answer, storeVars
<1>4. CASE Flip
  BY <1>0, <1>4, SpendIsNoKill DEF Flip, NetworkChanges, storeVars
<1>5. CASE UNCHANGED launchVars
  BY <1>5 DEF launchVars, deviceVars, storeVars
<1> QED
  BY <1>1, <1>2, <1>3, <1>4, <1>5 DEF Next

\* So the rows it was left with are what the start sees.
LEMMA StartIsLeftBehind ==
  ASSUME IInv, AtTheStart, [Next]_launchVars
  PROVE  AtTheStart'
<1>0. DeviceTypeOK
  BY DEF IInv, LaunchInv
<1> DEFINE k  == left["kill"]
           k2 == left'["kill"]
<1>1. Limit["kill"] \in Nat /\ k \in Nat
  BY <1>0, LimitAssumption DEF DeviceTypeOK
<1>2. k2 \in Int /\ k2 <= k
  <2>1. left'["kill"] = left["kill"] \/ Spend("kill") \/ \E what : what # "kill" /\ Spend(what)
    BY DEF Next, Launch, LaunchStep, LaunchRequestSucceeds, LaunchRequestFails, FetchSucceeds,
           FetchFails, Delivered, Failed, Notify, NotifyDeletes, NotifyEdits, NotifyPosts,
           ServerStep, ServerAddsNote, ServerEditsNote, ServerDeletesNote, ServerListsNotes,
           ServerDeletesUser, ServerRegisters, Answer, Kill, Flip, NetworkChanges,
           launchVars, deviceVars
  <2>2. Spend("kill") => k2 = k - 1
    BY <1>0, LimitAssumption DEF Spend, SpendAll, DeviceTypeOK
  <2>3. k2 = k \/ k2 = k - 1
    BY <1>0, <2>1, <2>2, SpendIsNoKill
  <2> HIDE DEF k, k2
  <2> QED
    BY <1>1, <2>3
<1>3. CASE running'
  <2>1. k <= Limit["kill"]
    BY DEF AtTheStart
  <2> HIDE DEF k, k2
  <2>2. k2 <= Limit["kill"]
    BY <1>1, <1>2, <2>1
  <2> QED
    BY <1>3, <2>2 DEF AtTheStart, k2
<1>4. CASE Kill
  <2>1. k2 = k - 1
    BY <1>0, <1>4, LimitAssumption DEF Kill, Spend, SpendAll, DeviceTypeOK
  <2> HIDE DEF k2
  <2>2. k2 < Limit["kill"]
    BY <1>1, <2>1 DEF AtTheStart
  <2>3. k2 <= Limit["kill"] /\ k2 # Limit["kill"]
    BY <1>1, <2>1, <2>2
  <2> QED
    BY <2>3 DEF AtTheStart, k2
<1>5. CASE UNCHANGED <<notes, running>> /\ left'["kill"] = left["kill"]
  BY <1>5 DEF AtTheStart, RowsApart
<1> QED
  BY <1>3, <1>4, <1>5, OnlyKillsStop

\* Merging an answer goes by the text, with the rows a phone starts with and with
\* any few: whichever ids the rows have, if they are their own or those of the
\* answer's notes with the same texts (syncLocalWithServer, updateLocalNoteIDs).
THEOREM MergesGoByText ==
  ASSUME \E T \in SUBSET Text : Cardinality(T) = 3
  PROVE  Spec /\ left = Limit /\ RowsApart => []MergeGoesByText
<1>1. Init /\ left = Limit /\ RowsApart => AtTheStart
  BY LimitAssumption DEF AtTheStart
<1>2. IInv /\ AtTheStart /\ [Next]_launchVars => AtTheStart'
  BY StartIsLeftBehind
<1>3. IInv /\ AtTheStart => MergeGoesByText
  <2> SUFFICES ASSUME IInv, AtTheStart, Starting PROVE MergeGoesByText
    BY DEF MergeGoesByText
  <2>1. RowsApart /\ notes \in Seq(UserEntity)
    BY DEF AtTheStart, Starting, IInv, LaunchInv, DeviceTypeOK
  <2>2. ASSUME NEW response \in Answers PROVE MergesByText(notes, response)
    BY <2>1, <2>2, ShortAnswersAreAnswers, MergingGoesByText DEF RowsApart
  <2>3. ASSUME NEW rows \in RowLists, NEW response \in Answers
        PROVE  MergesByText(rows, response)
    BY <2>3, ShortListsAreApart, MergingGoesByText
  <2> QED
    BY <2>2, <2>3 DEF MergeGoesByText
<1> QED
  BY <1>1, <1>2, <1>3, InvariantHolds, PTL DEF Spec
=============================================================================
