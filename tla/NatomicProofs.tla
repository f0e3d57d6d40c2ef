---------------------------- MODULE NatomicProofs ----------------------------
(***************************************************************************)
(* What holds of the whole app on every phone: the launch synchronisation, *)
(* the screens, the session and the server at work together, for any       *)
(* accounts, texts, queues and rows, and any number of taps, kills,        *)
(* failures and changes of the connection.                                 *)
(***************************************************************************)
EXTENDS Natomic, LaunchSyncProofs

\* Every object of the list is a row's.
Listed(list, rows) == \A i \in DOMAIN list : \E j \in DOMAIN rows : rows[j].obj = list[i]

\* A step that leaves each row its object.
SameObjects == /\ DOMAIN notes' = DOMAIN notes
               /\ \A i \in DOMAIN notes : notes'[i].obj = notes[i].obj

\* Without a process there is no screen.
NoProcess == ~running => screen = "off" /\ writers = <<>> /\ editor = NoEditor

\* The closures that wait for an answer find their view controller.
Callbacks ==
  \A r \in net : /\ r.by = "writing" => r.who \in DOMAIN writers
                 /\ r.by = "home" => r.who \in DOMAIN deleteNoteID

\* The inductive invariant: the launch synchronisation keeps its own whatever
\* the screens do, and a touch on a row finds the row.
AppInv ==
  /\ LaunchInv
  /\ HomeTypeOK /\ WritingTypeOK /\ EditTypeOK
  /\ NoProcess
  /\ Callbacks
  /\ screen # "off" => deleteNoteID # <<>>
  /\ screen # "off" => Listed(userData, notes)

---------------------------------------------------------------------------
(* Facts about the operators the screens use.                              *)

\* IndexOf finds the row of an object if there is one.
LEMMA RowOfObject ==
  ASSUME NEW rows \in Seq(UserEntity), NEW obj
  PROVE  /\ IndexOf(rows, obj) # 0 => /\ IndexOf(rows, obj) \in DOMAIN rows
                                      /\ rows[IndexOf(rows, obj)].obj = obj
         /\ (\E j \in DOMAIN rows : rows[j].obj = obj) => IndexOf(rows, obj) # 0
<1> DEFINE hit == {i \in 1..Len(rows) : rows[i].obj = obj}
<1>1. IndexOf(rows, obj) = IF hit # {} THEN Min(hit) ELSE 0
  BY DEF IndexOf, SelectInSeq
<1>2. hit \in SUBSET Nat /\ 0 \notin hit /\ DOMAIN rows = 1..Len(rows)
  BY LenProperties
<1>3. hit # {} => Min(hit) \in hit
  BY <1>2, MinIsMember
<1> QED
  BY <1>1, <1>2, <1>3

\* The list on screen, reloaded: the objects of the rows in reverse.
LEMMA ReloadedList ==
  ASSUME NEW rows \in Seq(UserEntity), SaveUserData(rows)
  PROVE  /\ userData' \in Seq(Nat)
         /\ Listed(userData', rows)
<1>1. userData' \in Seq(Nat)
  BY SavedList
<1> DEFINE n == Len(rows)
<1>2. n \in Nat /\ DOMAIN rows = 1..n
  BY LenProperties
<1>3. userData' = [i \in 1..n |-> Reverse(rows)[i].obj]
  BY <1>2 DEF SaveUserData
<1>4. \A i \in 1..n : (n - i) + 1 \in 1..n /\ Reverse(rows)[i] = rows[(n - i) + 1]
  BY <1>2 DEF Reverse
<1>5. \A i \in DOMAIN userData' : i \in 1..n /\ userData'[i] = rows[(n - i) + 1].obj
  BY <1>3, <1>4
<1> HIDE DEF n
<1> QED
  BY <1>1, <1>2, <1>4, <1>5 DEF Listed

\* Rows that keep their objects keep the list.
LEMMA StillListed ==
  ASSUME NEW list, NEW rows, NEW t, Listed(list, rows),
         \A i \in DOMAIN rows : \E j \in DOMAIN t : t[j].obj = rows[i].obj
  PROVE  Listed(list, t)
  BY DEF Listed

\* Deleting an object's row leaves the other rows.
LEMMA DeletedRow ==
  ASSUME NEW rows \in Seq(UserEntity), NEW obj, NEW t, t = deleteUserContext(rows, obj),
         \A i, j \in DOMAIN rows : rows[i].obj = rows[j].obj => i = j
  PROVE  /\ t \in Seq(UserEntity)
         /\ \A i \in DOMAIN t : \E j \in DOMAIN rows : t[i] = rows[j]
         /\ \A i, j \in DOMAIN t : t[i].obj = t[j].obj => i = j
<1> DEFINE k == IndexOf(rows, obj)
<1>1. CASE k = 0
  BY <1>1 DEF deleteUserContext
<1>2. CASE k # 0
  <2>1. k \in 1..Len(rows) /\ DOMAIN rows = 1..Len(rows)
    BY <1>2, RowOfObject, LenProperties
  <2>2. t = RemoveAt(rows, k)
    BY <1>2 DEF deleteUserContext
  <2> HIDE DEF k
  <2>3. t \in Seq(UserEntity)
    BY <2>1, <2>2, ShorterArray
  <2>4. \A i \in DOMAIN t :
           /\ i \in Nat
           /\ \/ i < k /\ i \in DOMAIN rows /\ t[i] = rows[i]
              \/ i >= k /\ i + 1 \in DOMAIN rows /\ t[i] = rows[i + 1]
    BY <2>1, <2>2, ShorterElements
  <2>5. \A i \in DOMAIN t : \E j \in DOMAIN rows : t[i] = rows[j]
    BY <2>4
  <2>6. ASSUME NEW i \in DOMAIN t, NEW j \in DOMAIN t, t[i].obj = t[j].obj
        PROVE  i = j
    <3> DEFINE old(m) == IF m < k THEN m ELSE m + 1
    <3>1. /\ i \in Nat /\ j \in Nat /\ k \in Nat
          /\ old(i) \in DOMAIN rows /\ t[i] = rows[old(i)]
          /\ old(j) \in DOMAIN rows /\ t[j] = rows[old(j)]
      BY <2>1, <2>4
    <3>2. old(i) = old(j)
      BY <2>6, <3>1
    <3> QED
      BY <3>1, <3>2
  <2> QED
    BY <2>3, <2>5, <2>6
<1> QED
  BY <1>1, <1>2

\* A pending note is dropped, or none: the rest are pending notes.
LEMMA WithoutDayIsArray ==
  ASSUME NEW pending \in Seq(PendingData), NEW day
  PROVE  WithoutDay(pending, day) \in Seq(PendingData)
<1> DEFINE hit == {i \in 1..Len(pending) : pending[i].day = day}
           k == SelectInSeq(pending, LAMBDA e : e.day = day)
<1>1. k = IF hit # {} THEN Min(hit) ELSE 0
  BY DEF SelectInSeq
<1>2. hit \in SUBSET Nat
  OBVIOUS
<1>3. hit # {} => Min(hit) \in hit
  BY <1>2, MinIsMember
<1>4. k = 0 \/ k \in 1..Len(pending)
  BY <1>1, <1>3
<1> QED
  BY <1>4, ShorterArray DEF WithoutDay

\* A budget is spent in units, of several resources at once too.
LEMMA SpentType ==
  ASSUME left \in [Resource -> Nat], NEW S, S \subseteq Resource, SpendAll(S)
  PROVE  left' \in [Resource -> Nat]
<1>1. \A x \in Resource : left[x] \in Nat /\ (x \in S => left[x] - 1 \in Nat)
  BY DEF SpendAll
<1> QED
  BY <1>1 DEF SpendAll

\* Spending one resource, failures included.
LEMMA SpendsType ==
  ASSUME left \in [Resource -> Nat],
         \/ left' = left
         \/ \E x \in {"kill", "flip", "fail", "garble", "start", "write", "tap", "edit", "delete",
                      "signIn", "signOut"} : Spend(x)
         \/ \E r \in net : Failed(r) \/ Delivered(r)
  PROVE  left' \in [Resource -> Nat]
<1>1. ASSUME NEW x \in Resource, Spend(x) PROVE left' \in [Resource -> Nat]
  BY <1>1, SpendType
<1>2. {"kill", "flip", "fail", "garble", "start", "write", "tap", "edit", "delete", "signIn",
       "signOut"} \subseteq Resource
  BY LimitAssumption, ScreenLimits
<1>3. ASSUME NEW r, Failed(r) PROVE left' \in [Resource -> Nat]
  BY <1>3, FailedType
<1> QED
  BY <1>1, <1>2, <1>3 DEF Delivered

\* Appending to a queue an entry of its kind.
LEMMA EnqueuedType ==
  ASSUME NEW q \in Queues, NEW kind \in Kind, NEW e \in Items[kind]
  PROVE  [q EXCEPT ![kind] = Append(@, e)] \in Queues
<1>1. q[kind] \in Seq(Items[kind])
  BY QueueOfKind
<1>2. Append(q[kind], e) \in Seq(Items[kind])
  BY <1>1, AppendProperties
<1>3. [q EXCEPT ![kind] = Append(q[kind], e)] \in Queues
  BY <1>2, QueueReplaced
<1> QED
  BY <1>3

\* A finite set of numbers that is not empty has a greatest.
LEMMA MaxIsMember ==
  ASSUME NEW T \in SUBSET Nat, T # {}, IsFiniteSet(T)
  PROVE  /\ Max(T) \in T
         /\ \A y \in T : y <= Max(T)
<1> DEFINE x == Nth(T, Cardinality(T))
           U == {j \in T : j <= x}
<1>1. Cardinality(T) \in Nat /\ Cardinality(T) # 0
  BY FS_CardinalityType, FS_EmptySet
<1>2. x \in T /\ Rank(T, x) = Cardinality(T)
  BY <1>1, NthIsMember
<1> HIDE DEF x
<1>3. Cardinality(U) = Cardinality(T)
  BY <1>2 DEF Rank
<1>4. U = T
  <2>1. U \in SUBSET T
    OBVIOUS
  <2> QED
    BY <1>3, <2>1, FS_Subset
<1>5. \A y \in T : x >= y
  BY <1>2, <1>4
<1>6. Max(T) \in T /\ \A y \in T : Max(T) >= y
  BY <1>2, <1>5 DEF Max
<1> QED
  BY <1>6

\* An idx that no request of the caller uses.
LEMMA FreshIsUnused ==
  ASSUME NetOK, NEW by
  PROVE  /\ Fresh(by) \in Nat
         /\ \A r \in net : r.by = by => r.idx < Fresh(by)
<1> DEFINE Q == {q \in net : q.by = by}
           I == {r.idx : r \in Q}
           T == {0} \cup I
<1>1. IsFiniteSet(Q)
  BY FS_Subset DEF NetOK
<1>2. IsFiniteSet(I)
  <2> DEFINE f == [q \in Q |-> q.idx]
  <2>1. f \in Surjection(Q, I)
    BY DEF Surjection
  <2> HIDE DEF f, Q, I
  <2> QED
    BY <1>1, <2>1, FS_Surjection
<1>3. IsFiniteSet(T)
  BY <1>2, FS_Singleton, FS_Union
<1>4. \A r \in net : r.idx \in Nat
  BY DEF NetOK, Request
<1>5. T \in SUBSET Nat /\ T # {}
  BY <1>4
<1>6. Fresh(by) = 1 + Max(T)
  BY DEF Fresh
<1>7. Max(T) \in Nat /\ \A y \in T : y <= Max(T)
  BY <1>3, <1>5, MaxIsMember
<1>8. \A r \in net : r.by = by => r.idx \in T
  OBVIOUS
<1> HIDE DEF T
<1> QED
  BY <1>4, <1>6, <1>7, <1>8

---------------------------------------------------------------------------
(* What a step of a screen, or of the session, leaves to the launch.       *)

\* A request of a screen's own, with what its operation needs.
Sendable(r) == /\ r \in Request
               /\ r.by # "launch"
               /\ r.op \in Kind => r.arg \in Items[r.op]

\* Requests of the screens come and go: those of the launch stay.
LEMMA NetStep ==
  ASSUME NetOK, NEW Q, NEW R, IsFiniteSet(R),
         \A r \in net \cap Q : r.by # "launch",
         \A r \in R : Sendable(r),
         net' = (net \ Q) \cup R
  PROVE  /\ NetOK'
         /\ \A r : r.by = "launch" => (r \in net' <=> r \in net)
<1>1. IsFiniteSet(net \ Q)
  BY FS_Subset DEF NetOK
<1>2. IsFiniteSet(net')
  BY <1>1, FS_Union
<1> QED
  BY <1>2 DEF NetOK, Sendable

\* One request of a screen ends.
LEMMA OneEnds ==
  ASSUME NetOK, NEW r, r.by # "launch", net' = net \ {r}
  PROVE  /\ NetOK'
         /\ \A s : s.by = "launch" => (s \in net' <=> s \in net)
<1>1. IsFiniteSet({}) /\ \A s \in {} : Sendable(s)
  BY FS_EmptySet
<1>2. net' = (net \ {r}) \cup {}
  OBVIOUS
<1> QED
  BY <1>1, <1>2, NetStep

\* One request of a screen is sent.
LEMMA OneStarts ==
  ASSUME NetOK, NEW r, Sendable(r), net' = net \cup {r}
  PROVE  /\ NetOK'
         /\ \A s : s.by = "launch" => (s \in net' <=> s \in net)
<1>1. IsFiniteSet({r}) /\ \A s \in {r} : Sendable(s)
  BY FS_Singleton
<1>2. net' = (net \ {}) \cup {r} /\ \A s \in net \cap {} : s.by # "launch"
  OBVIOUS
<1> QED
  BY <1>1, <1>2, NetStep

\* A step that leaves the chain and its requests alone keeps its invariant.
LEMMA ChainUntouched ==
  ASSUME LaunchInv, UNCHANGED <<chainVars, running>>,
         NetOK', DeviceTypeOK', ObjectsApart',
         \A r : r.by = "launch" => (r \in net' <=> r \in net),
         running \/ net' = {}
  PROVE  LaunchInv'
<1>1. UNCHANGED <<phase, snapshot, indicesToRemove, group>>
  BY DEF chainVars
<1>2. InFlight' = InFlight
  BY DEF InFlight
<1>3. ChainOK'
  BY <1>1, <1>2 DEF LaunchInv, ChainOK, Barrier, OffsetsSound, OneEach
<1> QED
  BY <1>1, <1>3 DEF LaunchInv

\* The end of the process.
LEMMA ProcessEndsIsOK ==
  ASSUME AppInv, AllEnds, left' \in [Resource -> Nat]
  PROVE  AppInv'
<1>1. /\ running' = FALSE /\ net' = {} /\ userData' = <<>> /\ overlay' = FALSE
      /\ UNCHANGED <<notes, queue, uid, nextObj, server, nextID, online>>
      /\ Idle /\ HomeEnds /\ writers' = <<>> /\ editor' = NoEditor
  BY DEF AllEnds, ProcessEnds, EditEnds, storeVars, remoteVars
<1>2. InFlight' = {}
  BY <1>1 DEF InFlight
<1>3. ChainOK' /\ NetOK'
  BY <1>1, <1>2, IdleIsOK, FS_EmptySet DEF NetOK
<1>4. DeviceTypeOK' /\ ObjectsApart'
  BY <1>1, EmptySeq DEF AppInv, LaunchInv, DeviceTypeOK, ObjectsApart
<1>5. LaunchInv'
  BY <1>1, <1>3, <1>4 DEF LaunchInv, Idle
<1>6. HomeTypeOK' /\ WritingTypeOK' /\ EditTypeOK'
  BY <1>1, EmptySeq DEF HomeEnds, HomeTypeOK, Screen, WritingTypeOK, EditTypeOK
<1>7. NoProcess' /\ Callbacks' /\ screen' = "off"
  BY <1>1 DEF HomeEnds, NoProcess, Callbacks
<1> QED
  BY <1>5, <1>6, <1>7 DEF AppInv

---------------------------------------------------------------------------
(* One lemma per action.                                                   *)

LEMMA AppInitIsOK == AppInit => AppInv
<1> SUFFICES ASSUME AppInit PROVE AppInv
  OBVIOUS
<1>1. LaunchInv
  BY InitIsOK DEF AppInit
<1>2. /\ screen = "off" /\ alert = NoAlert /\ deleteNoteID = <<>> /\ writers = <<>>
      /\ editor = NoEditor /\ net = {}
  BY DEF AppInit, Init, HomeInit, WritingInit, EditInit
<1>3. HomeTypeOK /\ WritingTypeOK /\ EditTypeOK
  BY <1>2, EmptySeq DEF HomeTypeOK, Screen, WritingTypeOK, EditTypeOK
<1> QED
  BY <1>1, <1>2, <1>3 DEF AppInv, NoProcess, Callbacks

\* The screens are as they were after a step of the chain or of the server.
LEMMA ScreensUntouched ==
  ASSUME AppInv, UNCHANGED screenVars, LaunchInv',
         ~running' => ~running,
         \A r \in net' : \/ r \in net
                          \/ r.by = "launch"
                          \/ \E s \in net : r.by = s.by /\ r.who = s.who,
         screen # "off" => Listed(userData', notes')
  PROVE  AppInv'
<1>1. UNCHANGED <<screen, alert, deleteNoteID, writers, editor>>
  BY DEF screenVars, homeVars
<1>2. HomeTypeOK' /\ WritingTypeOK' /\ EditTypeOK'
  BY <1>1 DEF AppInv, HomeTypeOK, WritingTypeOK, EditTypeOK
<1>3. NoProcess' /\ Callbacks'
  BY <1>1 DEF AppInv, NoProcess, Callbacks
<1> QED
  BY <1>1, <1>2, <1>3 DEF AppInv

LEMMA AppLaunchIsOK == AppInv /\ AppLaunch => AppInv'
<1> SUFFICES ASSUME AppInv, AppLaunch PROVE AppInv'
  OBVIOUS
<1>1. Launch /\ UNCHANGED screenVars /\ LaunchInv /\ ~running /\ running'
  BY DEF AppLaunch, AppInv, Launch
<1>2. LaunchInv' /\ screen = "off" /\ net = {}
  BY <1>1, LaunchIsOK DEF AppInv, NoProcess, LaunchInv
<1>3. \A r \in net' : r.by = "launch"
  BY <1>1, <1>2 DEF Launch, postDeletePendingData, postEditedPendingData, postPendingUserNotes,
       Drain, NewRequest
<1> QED
  BY <1>1, <1>2, <1>3, ScreensUntouched

\* The chain's requests are its own.
LEMMA ChainSends ==
  ASSUME NEW q,
         \/ postDeletePendingData(q) \/ postEditedPendingData(q) \/ postPendingUserNotes(q)
  PROVE  \A r \in net' : r \in net \/ r.by = "launch"
BY DEF postDeletePendingData, postEditedPendingData, postPendingUserNotes, Drain, NewRequest

\* The chain reloads the list from the rows, or leaves it as it is.
LEMMA ChainLists ==
  ASSUME NEW q, notes \in Seq(UserEntity), Listed(userData, notes),
         postEditedPendingData(q) \/ postPendingUserNotes(q)
  PROVE  Listed(userData', notes)
<1>1. userData' = userData \/ SaveUserData(notes)
  BY DEF postEditedPendingData, postPendingUserNotes, Drain
<1> QED
  BY <1>1, ReloadedList

LEMMA AppChainIsOK == AppInv /\ AppChain => AppInv'
<1> SUFFICES ASSUME AppInv, LaunchStep, UNCHANGED screenVars PROVE AppInv'
  BY DEF AppChain
<1>1. LaunchInv /\ LaunchInv' /\ notes \in Seq(UserEntity)
  BY ChainStepIsOK DEF AppInv, LaunchInv, DeviceTypeOK
<1>2. CASE Notify
  <2>1. notes' = notes /\ running' = running
    BY <1>2 DEF Notify, NotifyDeletes, NotifyEdits, NotifyPosts
  <2>2. \/ UNCHANGED <<net, userData>>
        \/ postEditedPendingData(Written) \/ postPendingUserNotes(Written)
    BY <1>2 DEF Notify, NotifyDeletes, NotifyEdits, NotifyPosts
  <2>3. \A r \in net' : r \in net \/ r.by = "launch"
    BY <2>2, ChainSends
  <2>4. Listed(userData, notes) => Listed(userData', notes')
    BY <1>1, <2>1, <2>2, ChainLists
  <2> QED
    BY <1>1, <2>1, <2>3, <2>4, ScreensUntouched DEF AppInv
<1>3. ASSUME NEW r \in net, LaunchRequestSucceeds(r) PROVE AppInv'
  <2>1. net' = net \ {r} /\ running' = running
    BY <1>3 DEF LaunchRequestSucceeds
  <2>2. userData' = userData \/ SaveUserData(notes)
    BY <1>3 DEF LaunchRequestSucceeds
  <2>3. Listed(userData, notes) => Listed(userData', notes)
    BY <1>1, <2>2, ReloadedList
  <2>4. \A i \in DOMAIN notes : i \in DOMAIN notes' /\ notes'[i].obj = notes[i].obj
    BY <1>1, <1>3, Stamping
  <2>5. Listed(userData, notes) => Listed(userData', notes')
    BY <2>3, <2>4, StillListed
  <2> QED
    BY <1>1, <2>1, <2>5, ScreensUntouched DEF AppInv
<1>4. ASSUME NEW r \in net, LaunchRequestFails(r) \/ FetchFails(r) PROVE AppInv'
  <2>1. net' = net \ {r} /\ UNCHANGED <<running, notes, userData>>
    BY <1>4 DEF LaunchRequestFails, FetchFails, storeVars
  <2> QED
    BY <1>1, <2>1, ScreensUntouched DEF AppInv
<1>5. ASSUME NEW r \in net, FetchSucceeds(r) PROVE AppInv'
  <2>1. /\ net' = net \ {r} /\ running' = running
        /\ notes' = syncLocalWithServer(notes, r.rows, nextObj)
        /\ IF Len(r.rows) # Len(notes) THEN SaveUserData(notes') ELSE userData' = userData
    BY <1>5 DEF FetchSucceeds
  <2>2. r.rows \in Seq(ServerNote) /\ notes' \in Seq(UserEntity)
    BY <1>1 DEF LaunchInv, NetOK, Request, DeviceTypeOK
  <2>3. Listed(userData, notes) => Listed(userData', notes')
    <3>1. CASE Len(r.rows) # Len(notes)
      <4> DEFINE rows == notes'
      <4>1. rows \in Seq(UserEntity) /\ SaveUserData(rows)
        BY <2>1, <2>2, <3>1
      <4> HIDE DEF rows
      <4>2. Listed(userData', rows)
        BY <4>1, ReloadedList
      <4> QED
        BY <4>2 DEF rows
    <3>2. CASE Len(r.rows) = Len(notes)
      <4>1. notes' = updateLocalNoteIDs(notes, r.rows) /\ userData' = userData
        BY <2>1, <3>2 DEF syncLocalWithServer
      <4>2. \A i \in DOMAIN notes : i \in DOMAIN notes' /\ notes'[i].obj = notes[i].obj
        BY <1>1, <2>2, <4>1, IdentifiedRows
      <4> QED
        BY <4>1, <4>2, StillListed
    <3> QED
      BY <3>1, <3>2
  <2> QED
    BY <1>1, <2>1, <2>3, ScreensUntouched DEF AppInv
<1> QED
  BY <1>2, <1>3, <1>4, <1>5 DEF LaunchStep

LEMMA AppServerIsOK == AppInv /\ AppServer => AppInv'
<1> SUFFICES ASSUME AppInv, ServerStep, UNCHANGED chainVars, UNCHANGED screenVars PROVE AppInv'
  BY DEF AppServer
<1>1. LaunchInv'
  BY ServerIsOK DEF AppInv
<1>2. PICK r \in net : \E id, rows : Answer(r, id, rows)
  BY DEF ServerStep, ServerAddsNote, ServerEditsNote, ServerDeletesNote, ServerListsNotes,
         ServerDeletesUser, ServerRegisters
<1>0. PICK id, rows : Answer(r, id, rows)
  BY <1>2
<1> DEFINE t == [r EXCEPT !.done = TRUE, !.id = id, !.rows = rows]
<1>3. net' = (net \ {r}) \cup {t} /\ UNCHANGED <<notes, userData, running>>
  BY <1>0 DEF Answer, storeVars
<1>4. t.by = r.by /\ t.who = r.who
  <2>1. r \in Request
    BY DEF AppInv, LaunchInv, NetOK
  <2> QED
    BY <2>1 DEF Request
<1> HIDE DEF t
<1>5. \A s \in net' : s \in net \/ \E u \in net : s.by = u.by /\ s.who = u.who
  BY <1>3, <1>4
<1> QED
  BY <1>1, <1>3, <1>5, ScreensUntouched DEF AppInv

\* What is left to show of a step of a screen or of the session.
LEMMA ScreenStepIsOK ==
  ASSUME AppInv, running, UNCHANGED <<chainVars, running>>,
         NetOK', \A r : r.by = "launch" => (r \in net' <=> r \in net),
         DeviceTypeOK', ObjectsApart',
         HomeTypeOK', WritingTypeOK', EditTypeOK', Callbacks',
         screen' # "off" => deleteNoteID' # <<>> /\ Listed(userData', notes')
  PROVE  AppInv'
<1>1. LaunchInv'
  BY ChainUntouched DEF AppInv
<1> QED
  BY <1>1 DEF AppInv, NoProcess

\* What AppInv says, taken apart.
LEMMA AppParts ==
  ASSUME AppInv
  PROVE  /\ LaunchInv /\ NetOK /\ DeviceTypeOK /\ ObjectsApart
         /\ HomeTypeOK /\ WritingTypeOK /\ EditTypeOK /\ Callbacks
         /\ notes \in Seq(UserEntity) /\ queue \in Queues
         /\ uid \in Account \cup {NoAccount} /\ nextObj \in Nat
         /\ userData \in Seq(Nat) /\ left \in [Resource -> Nat]
         /\ (screen # "off" \/ net # {} \/ writers # <<>> \/ editor # NoEditor) => running
BY DEF AppInv, LaunchInv, DeviceTypeOK, NoProcess

\* A touch on a row finds a note.
LEMMA TouchFindsRow ==
  ASSUME AppInv, screen # "off", NEW row \in DOMAIN userData
  PROVE  /\ IndexOf(notes, userData[row]) \in DOMAIN notes
         /\ notes[IndexOf(notes, userData[row])] \in UserEntity
         /\ userData[row] \in Nat
<1>1. notes \in Seq(UserEntity) /\ userData \in Seq(Nat) /\ Listed(userData, notes)
  BY AppParts DEF AppInv
<1>2. IndexOf(notes, userData[row]) \in DOMAIN notes
  BY <1>1, RowOfObject DEF Listed
<1> QED
  BY <1>1, <1>2, LenProperties

LEMMA DeleteTypes ==
  ASSUME NEW id \in Int, NEW pending \in Seq(PendingData), AppInv, deleteNoteID # <<>>,
         checkInternet(id, pending)
  PROVE  /\ NetOK' /\ queue' \in Queues
         /\ \A r : r.by = "launch" => (r \in net' <=> r \in net)
         /\ \A r \in net' : r \in net \/ (r.by = "home" /\ r.who = Len(deleteNoteID))
<1>1. /\ queue \in Queues /\ NetOK /\ uid \in Account \cup {NoAccount}
      /\ deleteNoteID \in Seq(Int)
  BY AppParts DEF HomeTypeOK
<1>2. [noteID |-> id] \in Items["delete"] /\ "delete" \in Kind /\ "post" \in Kind
  BY DEF Items, DeletePendingData, Kind
<1> DEFINE q == [queue EXCEPT !.post = pending]
<1>3. q \in Queues
  BY <1>1 DEF Queues
<1>4. CASE online
  <2> DEFINE e == [noteID |-> id]
             r == NewRequest("home", Len(deleteNoteID), Fresh("home"), "delete", e)
  <2>1. Len(deleteNoteID) \in Nat /\ Fresh("home") \in Nat
    BY <1>1, LenProperties, FreshIsUnused
  <2>2. "home" \in Caller /\ "delete" \in Op /\ e \in Entry \cup {NoArg}
    BY DEF Caller, Op, Kind, Entry, DeletePendingData
  <2>3. /\ r \in Request /\ r.by = "home" /\ r.op = "delete" /\ r.arg = e
        /\ r.who = Len(deleteNoteID)
    <3>1. r.who = Len(deleteNoteID)
      BY DEF NewRequest
    <3> HIDE DEF e
    <3> QED
      BY <1>1, <2>1, <2>2, <3>1, NewRequestType
  <2>4. Sendable(r)
    BY <1>2, <2>3 DEF Sendable
  <2>5. net' = net \cup {r} /\ queue' = q
    BY <1>4 DEF checkInternet
  <2> HIDE DEF r, q
  <2> QED
    BY <1>1, <1>3, <2>3, <2>4, <2>5, OneStarts
<1>5. CASE ~online
  <2>1. net' = net
    BY <1>5 DEF checkInternet
  <2>2. queue' = [q EXCEPT !["delete"] = Append(@, [noteID |-> id])]
    BY <1>1, <1>5 DEF checkInternet, Queues
  <2>3. queue' \in Queues
    <3> HIDE DEF q
    <3> QED
      BY <1>2, <1>3, <2>2, EnqueuedType
  <2> QED
    BY <1>1, <2>1, <2>3 DEF NetOK
<1> QED
  BY <1>4, <1>5

LEMMA DeleteConfirmedIsOK ==
  ASSUME AppInv, DeleteConfirmed, UNCHANGED <<chainVars, writers, editor>>
  PROVE  AppInv'
<1>1. /\ screen = "alert" /\ screen' = "home" /\ alert' = NoAlert
      /\ alert.row \in DOMAIN userData
      /\ notes' = deleteUserContext(notes, RowObject) /\ SaveUserData(notes')
      /\ UNCHANGED <<uid, nextObj, server, nextID, running, overlay, online, left>>
  BY DEF DeleteConfirmed, CloseAlert, Touched, remoteVars
<1>2. /\ notes \in Seq(UserEntity) /\ queue \in Queues /\ NetOK /\ running
      /\ deleteNoteID # <<>> /\ deleteNoteID \in Seq(Int)
      /\ \A i, j \in DOMAIN notes : notes[i].obj = notes[j].obj => i = j
  BY <1>1, AppParts DEF AppInv, HomeTypeOK, ObjectsApart
<1>3. /\ notes' \in Seq(UserEntity)
      /\ \A i \in DOMAIN notes' : \E j \in DOMAIN notes : notes'[i] = notes[j]
      /\ \A i, j \in DOMAIN notes' : notes'[i].obj = notes'[j].obj => i = j
  <2> DEFINE t == notes'
             o == RowObject
  <2>1. t = deleteUserContext(notes, o)
    BY <1>1
  <2> HIDE DEF t, o
  <2>2. /\ t \in Seq(UserEntity)
        /\ \A i \in DOMAIN t : \E j \in DOMAIN notes : t[i] = notes[j]
        /\ \A i, j \in DOMAIN t : t[i].obj = t[j].obj => i = j
    BY <1>2, <2>1, DeletedRow
  <2> QED
    BY <2>2 DEF t
<1>4. userData' \in Seq(Nat) /\ Listed(userData', notes')
  <2> DEFINE t == notes'
  <2>1. t \in Seq(UserEntity) /\ SaveUserData(t)
    BY <1>1, <1>3
  <2> HIDE DEF t
  <2>2. userData' \in Seq(Nat) /\ Listed(userData', t)
    BY <2>1, ReloadedList
  <2> QED
    BY <2>2 DEF t
<1>5. ObjectsApart'
  BY <1>1, <1>3, AppParts DEF ObjectsApart
<1>6. RowNote \in UserEntity
  BY <1>1, TouchFindsRow DEF RowNote, RowObject
<1>7. PICK id, pending : /\ id \in Int /\ pending \in Seq(PendingData)
                         /\ id = RowNote.noteID /\ pending = WithoutDay(queue.post, RowNote.day)
  <2>1. queue.post \in Seq(PendingData)
    BY <1>2 DEF Queues
  <2>2. WithoutDay(queue.post, RowNote.day) \in Seq(PendingData)
    BY <2>1, WithoutDayIsArray
  <2> QED
    BY <1>6, <2>2 DEF UserEntity
<1>8. \/ /\ queue' = [queue EXCEPT !.post = pending] /\ UNCHANGED <<net, deleteNoteID>>
      \/ /\ deleteNoteID' = [deleteNoteID EXCEPT ![Len(deleteNoteID)] = id]
         /\ checkInternet(id, pending)
  BY <1>7 DEF DeleteConfirmed
<1>9. /\ deleteNoteID' \in Seq(Int) /\ DOMAIN deleteNoteID' = DOMAIN deleteNoteID
      /\ deleteNoteID' # <<>> /\ Len(deleteNoteID) \in DOMAIN deleteNoteID
  <2> DEFINE n == Len(deleteNoteID)
  <2>1. n \in Nat /\ n # 0 /\ deleteNoteID \in [1..n -> Int] /\ DOMAIN deleteNoteID = 1..n
    BY <1>2, LenProperties, EmptySeq
  <2>2. deleteNoteID' = deleteNoteID \/ deleteNoteID' = [deleteNoteID EXCEPT ![n] = id]
    BY <1>8
  <2> HIDE DEF n
  <2>3. deleteNoteID' \in [1..n -> Int]
    BY <1>7, <2>1, <2>2
  <2>4. deleteNoteID' \in Seq(Int) /\ DOMAIN deleteNoteID' = 1..n /\ n \in 1..n
    BY <2>1, <2>3
  <2>5. deleteNoteID' # <<>>
    <3>1. 1..Len(deleteNoteID') = 1..n /\ Len(deleteNoteID') \in Nat
      BY <2>4, LenProperties
    <3>2. Len(deleteNoteID') # 0
      BY <2>1, <3>1
    <3> QED
      BY <2>4, <3>2, EmptySeq
  <2> QED
    BY <2>1, <2>4, <2>5 DEF n
<1>10. /\ NetOK' /\ queue' \in Queues
       /\ \A r : r.by = "launch" => (r \in net' <=> r \in net)
       /\ \A r \in net' : r \in net \/ (r.by = "home" /\ r.who = Len(deleteNoteID))
  <2>1. CASE queue' = [queue EXCEPT !.post = pending] /\ UNCHANGED <<net, deleteNoteID>>
    BY <1>2, <1>7, <2>1 DEF NetOK, Queues
  <2>2. CASE checkInternet(id, pending)
    BY <1>2, <1>7, <2>2, DeleteTypes
  <2> QED
    BY <1>8, <2>1, <2>2
<1>11. Callbacks'
  BY <1>9, <1>10, AppParts DEF Callbacks
<1>12. DeviceTypeOK' /\ HomeTypeOK' /\ WritingTypeOK' /\ EditTypeOK'
  BY <1>1, <1>3, <1>4, <1>9, <1>10, AppParts
  DEF DeviceTypeOK, NetOK, HomeTypeOK, Screen, WritingTypeOK, EditTypeOK
<1> QED
  BY <1>1, <1>2, <1>4, <1>5, <1>9, <1>10, <1>11, <1>12, ScreenStepIsOK

LEMMA HomeAppearsIsOK ==
  ASSUME AppInv, HomeAppears, UNCHANGED <<chainVars, writers, editor>>
  PROVE  AppInv'
<1>1. /\ running /\ screen = "off" /\ screen' = "home" /\ SaveUserData(notes)
      /\ deleteNoteID' = Append(deleteNoteID, Blank)
      /\ UNCHANGED <<notes, queue, uid, nextObj, server, nextID, net, running, overlay, online,
                     left, alert>>
  BY DEF HomeAppears, storeVars, remoteVars
<1>2. userData' \in Seq(Nat) /\ Listed(userData', notes)
  BY <1>1, AppParts, ReloadedList
<1> DEFINE n == Len(deleteNoteID)
<1>3. /\ deleteNoteID' \in Seq(Int) /\ n \in Nat /\ Len(deleteNoteID') = n + 1
      /\ DOMAIN deleteNoteID = 1..n /\ DOMAIN deleteNoteID' = 1..(n + 1)
  <2>1. deleteNoteID \in Seq(Int) /\ Blank \in Int
    BY AppParts DEF HomeTypeOK, Blank
  <2> QED
    BY <1>1, <2>1, AppendProperties, LenProperties
<1> HIDE DEF n
<1>4. deleteNoteID' # <<>>
  <2>1. Len(deleteNoteID') # 0
    BY <1>3
  <2> QED
    BY <1>3, <2>1, EmptySeq
<1>5. Callbacks'
  <2>1. \A k : k \in DOMAIN deleteNoteID => k \in DOMAIN deleteNoteID'
    BY <1>3
  <2> QED
    BY <1>1, <2>1, AppParts DEF Callbacks
<1>6. NetOK' /\ DeviceTypeOK' /\ ObjectsApart'
  BY <1>1, <1>2, AppParts DEF NetOK, DeviceTypeOK, ObjectsApart
<1>7. HomeTypeOK' /\ WritingTypeOK' /\ EditTypeOK'
  BY <1>1, <1>3, AppParts DEF HomeTypeOK, Screen, WritingTypeOK, EditTypeOK
<1> QED
  BY <1>1, <1>2, <1>4, <1>5, <1>6, <1>7, ScreenStepIsOK

\* The list and the dialog, while neither the rows nor the list change.
LEMMA TouchIsOK ==
  ASSUME AppInv, running, screen' # "off" => screen # "off",
         UNCHANGED <<chainVars, storeVars, remoteVars, userData, net, running, overlay, online,
                     deleteNoteID>>,
         left' \in [Resource -> Nat],
         HomeTypeOK', WritingTypeOK', EditTypeOK',
         DOMAIN writers \subseteq DOMAIN writers'
  PROVE  AppInv'
<1>1. UNCHANGED <<notes, queue, uid, nextObj, server, nextID>>
  BY DEF storeVars, remoteVars
<1>2. screen # "off" => deleteNoteID # <<>> /\ Listed(userData, notes)
  BY DEF AppInv
<1>3. NetOK' /\ DeviceTypeOK' /\ ObjectsApart'
  BY <1>1, AppParts DEF NetOK, DeviceTypeOK, ObjectsApart
<1>4. Callbacks'
  BY AppParts DEF Callbacks
<1> QED
  BY <1>1, <1>2, <1>3, <1>4, ScreenStepIsOK

LEMMA deleteItemAtIsOK ==
  ASSUME AppInv, NEW row \in DOMAIN userData, deleteItemAt(row),
         UNCHANGED <<chainVars, writers, editor>>
  PROVE  AppInv'
<1>1. /\ Spend("delete") /\ screen = "home" /\ screen' = "alert"
      /\ alert' = [row |-> row, shown |-> notes[IndexOf(notes, userData[row])].text]
      /\ UNCHANGED <<storeVars, remoteVars, userData, net, running, overlay, online,
                     deleteNoteID>>
  BY DEF deleteItemAt, Present, Touched
<1>2. notes[IndexOf(notes, userData[row])].text \in Text
  BY <1>1, TouchFindsRow DEF UserEntity
<1>3. row \in Nat
  <2>1. DOMAIN userData = 1..Len(userData)
    BY AppParts, LenProperties
  <2> QED
    BY <2>1
<1>4. HomeTypeOK' /\ WritingTypeOK' /\ EditTypeOK'
  BY <1>1, <1>2, <1>3, AppParts DEF HomeTypeOK, Screen, WritingTypeOK, EditTypeOK
<1>5. left' \in [Resource -> Nat]
  BY <1>1, AppParts, SpendsType
<1> QED
  BY <1>1, <1>4, <1>5, AppParts, TouchIsOK

LEMMA AlertClosesIsOK ==
  ASSUME AppInv, DeleteCancelled \/ DeleteRefused, UNCHANGED <<chainVars, writers, editor>>
  PROVE  AppInv'
<1>1. /\ screen = "alert" /\ screen' = "home" /\ alert' = NoAlert
      /\ UNCHANGED <<deviceVars, deleteNoteID>>
  BY DEF DeleteCancelled, DeleteRefused, CloseAlert, Touched
<1>2. HomeTypeOK' /\ WritingTypeOK' /\ EditTypeOK'
  BY <1>1, AppParts DEF HomeTypeOK, Screen, WritingTypeOK, EditTypeOK
<1>3. left' \in [Resource -> Nat]
  BY <1>1, AppParts DEF deviceVars
<1> QED
  BY <1>1, <1>2, <1>3, AppParts, TouchIsOK DEF deviceVars

\* An answer, or a failure, of a screen's own request that leaves the rows
\* and the list as they are.
LEMMA ScreenRequestEnds ==
  ASSUME AppInv, NEW r \in net, r.by # "launch", net' = net \ {r},
         \/ Delivered(r) \/ Failed(r) \/ Spend("garble"),
         queue' \in Queues,
         UNCHANGED <<chainVars, notes, uid, nextObj, remoteVars, userData, running, overlay,
                     online, homeVars, writers, editor>>
  PROVE  AppInv'
<1>1. NetOK' /\ \A s : s.by = "launch" => (s \in net' <=> s \in net)
  BY AppParts, OneEnds
<1>2. UNCHANGED <<server, nextID, screen, alert, deleteNoteID>>
  BY DEF remoteVars, homeVars
<1>3. left' \in [Resource -> Nat]
  BY AppParts, SpendsType
<1>4. DeviceTypeOK' /\ ObjectsApart'
  BY <1>1, <1>2, <1>3, AppParts DEF NetOK, DeviceTypeOK, ObjectsApart
<1>5. HomeTypeOK' /\ WritingTypeOK' /\ EditTypeOK' /\ Callbacks'
  BY <1>2, AppParts DEF HomeTypeOK, WritingTypeOK, EditTypeOK, Callbacks
<1>6. running /\ (screen # "off" => deleteNoteID # <<>> /\ Listed(userData, notes))
  BY AppParts DEF AppInv
<1> QED
  BY <1>1, <1>2, <1>4, <1>5, <1>6, ScreenStepIsOK

LEMMA AppHomeIsOK == AppInv /\ AppHome => AppInv'
<1> SUFFICES ASSUME AppInv, HomeStep, UNCHANGED <<chainVars, writers, editor>> PROVE AppInv'
  BY DEF AppHome
<1>1. ASSUME NEW r \in net, DeleteAnswered(r) PROVE AppInv'
  <2>1. queue' \in Queues
    BY <1>1, AppParts DEF DeleteAnswered, storeVars
  <2> QED
    BY <1>1, <2>1, ScreenRequestEnds DEF DeleteAnswered, HomeRequest, storeVars
<1>2. ASSUME NEW r \in net, DeleteFails(r) PROVE AppInv'
  <2> DEFINE e == [noteID |-> deleteNoteID[r.who]]
  <2>1. e \in Items["delete"] /\ "delete" \in Kind
    <3>1. r.who \in DOMAIN deleteNoteID /\ deleteNoteID \in Seq(Int)
      BY <1>2, AppParts DEF DeleteFails, HomeRequest, Callbacks, HomeTypeOK
    <3>2. deleteNoteID[r.who] \in Int
      BY <3>1, LenProperties
    <3> QED
      BY <3>2 DEF Items, DeletePendingData, Kind
  <2>2. queue' = [queue EXCEPT !["delete"] = Append(@, e)]
    BY <1>2 DEF DeleteFails, Enqueue
  <2> HIDE DEF e
  <2>3. queue' \in Queues
    BY <2>1, <2>2, AppParts, EnqueuedType
  <2> QED
    BY <1>2, <2>3, ScreenRequestEnds DEF DeleteFails, HomeRequest
<1> QED
  BY <1>1, <1>2, HomeAppearsIsOK, deleteItemAtIsOK, AlertClosesIsOK, DeleteConfirmedIsOK
  DEF HomeStep

\* One WritingVC changes.
LEMMA UpdateType ==
  ASSUME WritingTypeOK, NEW w \in DOMAIN writers, NEW f \in WritingVC, Update(w, f)
  PROVE  WritingTypeOK' /\ DOMAIN writers' = DOMAIN writers
<1>1. writers' = [writers EXCEPT ![w] = f] /\ writers \in Seq(WritingVC)
  BY DEF Update, WritingTypeOK
<1> DEFINE n == Len(writers)
<1>2. n \in Nat /\ writers \in [1..n -> WritingVC] /\ DOMAIN writers = 1..n
  BY <1>1, LenProperties
<1> HIDE DEF n
<1>3. writers' \in [1..n -> WritingVC]
  BY <1>1, <1>2
<1> QED
  BY <1>2, <1>3 DEF WritingTypeOK

LEMMA WriterType ==
  ASSUME WritingTypeOK, NEW w \in DOMAIN writers
  PROVE  writers[w] \in WritingVC /\ w \in Nat /\ writers # <<>>
<1>1. writers \in Seq(WritingVC)
  BY DEF WritingTypeOK
<1>2. Len(writers) \in Nat /\ w \in 1..Len(writers) /\ writers[w] \in WritingVC
  BY <1>1, LenProperties
<1>3. Len(writers) # 0
  BY <1>2
<1> QED
  BY <1>1, <1>2, <1>3, EmptySeq

LEMMA OpenWritingIsOK ==
  ASSUME AppInv, NEW text \in Text, OpenWriting(text), UNCHANGED <<chainVars, editor>>
  PROVE  AppInv'
<1> DEFINE v == [text |-> text, open |-> TRUE, adds |-> 0, observers |-> 0,
                 notifies |-> FALSE, due |-> 0]
<1>1. /\ Spend("write") /\ screen = "home" /\ screen' = "writing"
      /\ writers' = Append(writers, v)
      /\ UNCHANGED <<storeVars, remoteVars, userData, net, running, overlay, online, alert,
                     deleteNoteID>>
  BY DEF OpenWriting, Present, Touched
<1>2. v \in WritingVC
  BY DEF WritingVC
<1> HIDE DEF v
<1>3. WritingTypeOK' /\ DOMAIN writers \subseteq DOMAIN writers'
  <2>1. writers \in Seq(WritingVC)
    BY AppParts DEF WritingTypeOK
  <2>2. /\ writers' \in Seq(WritingVC) /\ Len(writers') = Len(writers) + 1
        /\ DOMAIN writers = 1..Len(writers) /\ DOMAIN writers' = 1..Len(writers')
        /\ Len(writers) \in Nat
    BY <1>1, <1>2, <2>1, AppendProperties, LenProperties
  <2> QED
    BY <2>2 DEF WritingTypeOK
<1>4. HomeTypeOK' /\ EditTypeOK'
  BY <1>1, AppParts DEF HomeTypeOK, Screen, EditTypeOK
<1>5. left' \in [Resource -> Nat]
  BY <1>1, AppParts, SpendsType
<1> QED
  BY <1>1, <1>3, <1>4, <1>5, AppParts, TouchIsOK

LEMMA closeBTNtappedIsOK ==
  ASSUME AppInv, NEW w \in DOMAIN writers, closeBTNtapped(w), UNCHANGED <<chainVars, editor>>
  PROVE  AppInv'
<1> DEFINE v == [writers[w] EXCEPT !.open = FALSE]
<1>1. /\ screen = "writing" /\ screen' = "home" /\ Update(w, v)
      /\ UNCHANGED <<deviceVars, alert, deleteNoteID>>
  BY DEF closeBTNtapped, Touched, BackHome
<1>2. v \in WritingVC
  BY AppParts, WriterType DEF WritingVC
<1> HIDE DEF v
<1>3. WritingTypeOK' /\ DOMAIN writers' = DOMAIN writers
  BY <1>1, <1>2, AppParts, UpdateType
<1>4. HomeTypeOK' /\ EditTypeOK' /\ left' \in [Resource -> Nat]
  BY <1>1, AppParts DEF HomeTypeOK, Screen, EditTypeOK, deviceVars
<1> QED
  BY <1>1, <1>3, <1>4, AppParts, TouchIsOK DEF deviceVars

\* A WritingVC changes, and perhaps a queue and what is in flight.
LEMMA WriterActs ==
  ASSUME AppInv, running, WritingTypeOK', DOMAIN writers' = DOMAIN writers,
         NetOK', \A r : r.by = "launch" => (r \in net' <=> r \in net),
         \A r \in net' : r \in net \/ (r.by = "writing" /\ r.who \in DOMAIN writers),
         queue' \in Queues, left' \in [Resource -> Nat],
         UNCHANGED <<chainVars, editor, notes, uid, nextObj, remoteVars, userData, running,
                     overlay, online, homeVars>>
  PROVE  AppInv'
<1>1. UNCHANGED <<server, nextID, screen, alert, deleteNoteID>>
  BY DEF remoteVars, homeVars
<1>2. DeviceTypeOK' /\ ObjectsApart'
  BY <1>1, AppParts DEF NetOK, DeviceTypeOK, ObjectsApart
<1>3. HomeTypeOK' /\ EditTypeOK' /\ Callbacks'
  BY <1>1, AppParts DEF HomeTypeOK, EditTypeOK, Callbacks
<1>4. screen # "off" => deleteNoteID # <<>> /\ Listed(userData, notes)
  BY DEF AppInv
<1> QED
  BY <1>1, <1>2, <1>3, <1>4, ScreenStepIsOK

\* A pending note of a WritingVC.
LEMMA PendingType ==
  ASSUME AppInv, NEW w \in DOMAIN writers
  PROVE  PendingNote(w) \in PendingData /\ Sent(w) \in PendingData
<1>1. writers[w].text \in Text
  BY AppParts, WriterType DEF WritingVC
<1>2. Len(notes) \in Nat
  BY AppParts, LenProperties
<1>3. CountedDay(notes) \in Int
  BY <1>2 DEF CountedDay
<1> QED
  BY <1>1, <1>3 DEF PendingNote, Sent, PendingData

\* A WritingVC whose Post was tapped.
LEMMA TappedType ==
  ASSUME NEW v \in WritingVC, NEW a \in Nat, NEW b \in Nat, NEW s \in BOOLEAN, NEW d \in Nat
  PROVE  [v EXCEPT !.adds = a, !.observers = b, !.notifies = s, !.due = d] \in WritingVC
BY DEF WritingVC

LEMMA postBTNtappedIsOK ==
  ASSUME AppInv, NEW w \in DOMAIN writers, postBTNtapped(w), UNCHANGED <<chainVars, editor>>
  PROVE  AppInv'
<1>1. /\ screen = "writing" /\ running
      /\ UNCHANGED <<notes, uid, nextObj, remoteVars, userData, net, running, overlay, online,
                     homeVars>>
  BY AppParts DEF postBTNtapped, Touched
<1>2. writers[w] \in WritingVC
  BY AppParts, WriterType
<1>3. /\ WritingTypeOK' /\ DOMAIN writers' = DOMAIN writers
      /\ queue' \in Queues /\ left' \in [Resource -> Nat]
  <2>1. CASE TapQueues(w)
    <3> DEFINE v == [writers[w] EXCEPT !.adds = @ + 1]
               e == PendingNote(w)
               S == {x \in {"tap"} : writers[w].adds > 0}
    <3>1. Update(w, v) /\ SpendAll(S) /\ queue' = [queue EXCEPT !["post"] = Append(@, e)]
      BY <2>1 DEF TapQueues, Enqueue
    <3>2. v \in WritingVC
      BY <1>2 DEF WritingVC
    <3>3. e \in Items["post"] /\ "post" \in Kind
      BY PendingType DEF Items, Kind
    <3>4. S \subseteq Resource
      BY ScreenLimits
    <3> HIDE DEF v, e, S
    <3> QED
      BY <3>1, <3>2, <3>3, <3>4, AppParts, UpdateType, EnqueuedType, SpentType
  <2>2. ASSUME NEW starts \in {TRUE, writers[w].notifies}, TapStarts(w, starts)
        PROVE  /\ WritingTypeOK' /\ DOMAIN writers' = DOMAIN writers
               /\ queue' \in Queues /\ left' \in [Resource -> Nat]
    <3> DEFINE v == [writers[w] EXCEPT
                       !.adds = @ + 1, !.observers = @ + 1, !.notifies = starts,
                       !.due = IF starts /\ ~writers[w].notifies THEN @ + 1 ELSE @]
               S == {x \in {"tap"} : writers[w].adds > 0} \cup {x \in {"start"} : ~starts}
    <3>1. Update(w, v) /\ SpendAll(S) /\ queue' = queue
      BY <2>2 DEF TapStarts
    <3>2. v \in WritingVC
      <4> DEFINE d == IF starts /\ ~writers[w].notifies THEN writers[w].due + 1
                                                         ELSE writers[w].due
      <4>1. starts \in BOOLEAN
        BY <1>2 DEF WritingVC
      <4>2. writers[w].due \in Nat
        BY <1>2 DEF WritingVC
      <4>3. d \in Nat
        BY <4>2
      <4>4. writers[w].adds + 1 \in Nat /\ writers[w].observers + 1 \in Nat
        BY <1>2 DEF WritingVC
      <4> HIDE DEF d
      <4>5. [writers[w] EXCEPT !.adds = writers[w].adds + 1,
                               !.observers = writers[w].observers + 1,
                               !.notifies = starts, !.due = d] \in WritingVC
        BY <1>2, <4>1, <4>3, <4>4, TappedType
      <4> QED
        BY <4>5 DEF d
    <3>3. S \subseteq Resource
      BY ScreenLimits
    <3> HIDE DEF v, S
    <3> QED
      BY <3>1, <3>2, <3>3, AppParts, UpdateType, SpentType
  <2> QED
    BY <2>1, <2>2 DEF postBTNtapped
<1>4. NetOK'
  BY <1>1, AppParts DEF NetOK
<1> QED
  BY <1>1, <1>3, <1>4, WriterActs

\* New rows after the rows there are: new objects, and the old rows stay.
LEMMA RowsAdded ==
  ASSUME DeviceTypeOK, ObjectsApart, NEW new \in Seq(UserEntity),
         \A i \in DOMAIN new : new[i].obj = nextObj + i - 1,
         notes' = notes \o new, nextObj' = nextObj + Len(new)
  PROVE  /\ notes' \in Seq(UserEntity) /\ nextObj' \in Nat \ {0}
         /\ ObjectsApart'
         /\ \A i \in DOMAIN notes : i \in DOMAIN notes' /\ notes'[i] = notes[i]
<1> DEFINE n == Len(notes)
           m == Len(new)
<1>1. notes \in Seq(UserEntity) /\ nextObj \in Nat \ {0}
  BY DEF DeviceTypeOK
<1>2. /\ n \in Nat /\ m \in Nat /\ DOMAIN notes = 1..n /\ DOMAIN new = 1..m
      /\ \A i \in 1..n : notes[i] \in UserEntity
  BY <1>1, LenProperties
<1>3. /\ notes' \in Seq(UserEntity) /\ Len(notes') = n + m
      /\ \A i \in 1..(n + m) : notes'[i] = IF i <= n THEN notes[i] ELSE new[i - n]
  BY <1>1, ConcatProperties
<1>4. DOMAIN notes' = 1..(n + m)
  BY <1>3, LenProperties
<1> HIDE DEF n, m
<1>5. nextObj' = nextObj + m
  BY DEF m
<1>6. \A i \in 1..n : i \in 1..(n + m) /\ notes'[i] = notes[i]
  BY <1>2, <1>3
<1>7. \A i \in 1..n : notes[i].obj \in Nat /\ notes[i].obj < nextObj
  BY <1>2 DEF ObjectsApart, UserEntity
<1>8. \A i \in 1..(n + m) :
         \/ i \in 1..n /\ notes'[i].obj = notes[i].obj
         \/ i > n /\ i - n \in 1..m /\ notes'[i].obj = nextObj + (i - n) - 1
  <2>1. \A k \in 1..m : new[k].obj = nextObj + k - 1
    BY <1>2
  <2>2. ASSUME NEW i \in 1..(n + m), i > n
        PROVE  i - n \in 1..m /\ notes'[i] = new[i - n]
    BY <1>2, <1>3, <2>2
  <2> QED
    BY <1>2, <1>6, <2>1, <2>2
<1>9. \A i \in 1..(n + m) : notes'[i].obj < nextObj'
  BY <1>1, <1>2, <1>5, <1>7, <1>8
<1>10. ASSUME NEW i \in 1..(n + m), NEW j \in 1..(n + m), notes'[i].obj = notes'[j].obj
       PROVE  i = j
  <2>1. CASE i \in 1..n /\ j \in 1..n
    BY <1>2, <1>6, <1>10, <2>1 DEF ObjectsApart
  <2>2. CASE i > n /\ j > n
    BY <1>1, <1>2, <1>8, <1>10, <2>2
  <2>3. CASE i \in 1..n /\ j > n
    BY <1>1, <1>2, <1>7, <1>8, <1>10, <2>3
  <2>4. CASE j \in 1..n /\ i > n
    BY <1>1, <1>2, <1>7, <1>8, <1>10, <2>4
  <2> QED
    BY <1>2, <2>1, <2>2, <2>3, <2>4
<1>11. ObjectsApart'
  BY <1>4, <1>9, <1>10 DEF ObjectsApart
<1>12. nextObj' \in Nat \ {0}
  BY <1>1, <1>2, <1>5
<1> QED
  BY <1>2, <1>3, <1>4, <1>6, <1>11, <1>12

\* The list reloaded from the rows there are after the step.
LEMMA ReloadedAfter ==
  ASSUME notes' \in Seq(UserEntity), SaveUserData(notes')
  PROVE  userData' \in Seq(Nat) /\ Listed(userData', notes')
<1> DEFINE t == notes'
<1>1. t \in Seq(UserEntity) /\ SaveUserData(t)
  OBVIOUS
<1> HIDE DEF t
<1>2. userData' \in Seq(Nat) /\ Listed(userData', t)
  BY <1>1, ReloadedList
<1> QED
  BY <1>2 DEF t

LEMMA addNoteIsOK ==
  ASSUME AppInv, NEW w \in DOMAIN writers, addNote(w), UNCHANGED <<chainVars, editor>>
  PROVE  AppInv'
<1> DEFINE v == [writers[w] EXCEPT !.adds = @ - 1, !.open = FALSE]
           e == NewRow(nextObj, writers[w].text, CountedDay(notes), Nil)
<1>1. /\ writers[w].adds > 0 /\ Update(w, v)
      /\ notes' = Append(notes, e) /\ nextObj' = nextObj + 1 /\ SaveUserData(notes')
      /\ UNCHANGED <<queue, uid, server, nextID, net, running, overlay, online, left, alert,
                     deleteNoteID>>
      /\ screen' = screen \/ (screen = "writing" /\ screen' = "home")
  BY DEF addNote, addUserContext, remoteVars, BackHome
<1>2. writers[w] \in WritingVC /\ running
  BY AppParts, WriterType
<1>3. v \in WritingVC
  <2> DEFINE a == writers[w].adds - 1
  <2>1. a \in Nat
    BY <1>1, <1>2 DEF WritingVC
  <2> HIDE DEF a
  <2>2. [writers[w] EXCEPT !.adds = a, !.open = FALSE] \in WritingVC
    BY <1>2, <2>1 DEF WritingVC
  <2> QED
    BY <2>2 DEF a
<1>4. e \in UserEntity /\ e.obj = nextObj
  <2>1. Len(notes) \in Nat /\ nextObj \in Nat
    BY AppParts, LenProperties
  <2>2. CountedDay(notes) \in Int /\ writers[w].text \in Text /\ Nil \in Int
    BY <1>2, <2>1 DEF CountedDay, WritingVC, Nil
  <2> QED
    BY <2>1, <2>2 DEF NewRow, UserEntity
<1> HIDE DEF v, e
<1>5. WritingTypeOK' /\ DOMAIN writers' = DOMAIN writers
  BY <1>1, <1>3, AppParts, UpdateType
<1>6. notes' \in Seq(UserEntity) /\ nextObj' \in Nat \ {0} /\ ObjectsApart'
  <2> DEFINE new == <<e>>
  <2>1. new \in Seq(UserEntity) /\ Len(new) = 1 /\ DOMAIN new = 1..1 /\ new[1].obj = nextObj
    BY <1>4
  <2>2. notes' = notes \o new /\ nextObj \in Nat
    BY <1>1, <1>4, AppParts, AppendIsConcat
  <2> HIDE DEF new
  <2>3. \A i \in DOMAIN new : new[i].obj = nextObj + i - 1
    BY <2>1, <2>2
  <2> QED
    BY <1>1, <2>1, <2>2, <2>3, AppParts, RowsAdded
<1>7. userData' \in Seq(Nat) /\ Listed(userData', notes')
  BY <1>1, <1>6, ReloadedAfter
<1>8. NetOK' /\ DeviceTypeOK' /\ Callbacks'
  BY <1>1, <1>5, <1>6, <1>7, AppParts DEF NetOK, DeviceTypeOK, Callbacks
<1>9. HomeTypeOK' /\ EditTypeOK'
  BY <1>1, AppParts DEF HomeTypeOK, Screen, EditTypeOK
<1>10. screen' # "off" => deleteNoteID' # <<>>
  BY <1>1 DEF AppInv
<1> QED
  BY <1>1, <1>2, <1>5, <1>6, <1>7, <1>8, <1>9, <1>10, ScreenStepIsOK

LEMMA reachabilityChangedIsOK ==
  ASSUME AppInv, NEW w \in DOMAIN writers, reachabilityChanged(w),
         UNCHANGED <<chainVars, editor>>
  PROVE  AppInv'
<1> DEFINE v == [writers[w] EXCEPT !.due = @ - 1]
           n == writers[w].observers
<1>1. /\ writers[w].due > 0 /\ Update(w, v)
      /\ UNCHANGED <<notes, uid, nextObj, remoteVars, userData, running, overlay, online, left,
                     homeVars>>
  BY DEF reachabilityChanged
<1>2. writers[w] \in WritingVC /\ running /\ w \in Nat
  BY AppParts, WriterType
<1>3. v \in WritingVC /\ n \in Nat
  BY <1>1, <1>2 DEF WritingVC
<1> HIDE DEF v
<1>4. WritingTypeOK' /\ DOMAIN writers' = DOMAIN writers
  BY <1>1, <1>3, AppParts, UpdateType
<1>5. Sent(w) \in PendingData /\ PendingNote(w) \in PendingData /\ queue \in Queues /\ NetOK
  BY AppParts, PendingType
<1>6. /\ NetOK' /\ \A r : r.by = "launch" => (r \in net' <=> r \in net)
      /\ \A r \in net' : r \in net \/ (r.by = "writing" /\ r.who \in DOMAIN writers)
      /\ queue' \in Queues
  <2> DEFINE rq(k) == NewRequest("writing", w, Fresh("writing") + k, "post", Sent(w))
             f == [k \in 1..n |-> rq(k)]
             R == {rq(k) : k \in 1..n}
  <2>1. CASE online /\ uid # NoAccount
    <3>1. net' = net \cup R /\ queue' = queue
      BY <2>1 DEF reachabilityChanged
    <3>2. \A k \in 1..n : /\ Sendable(rq(k)) /\ rq(k).by = "writing" /\ rq(k).who = w
      <4>1. Fresh("writing") \in Nat /\ uid \in Account \cup {NoAccount}
        BY <1>5, FreshIsUnused, AppParts
      <4>2. \A k \in 1..n : Fresh("writing") + k \in Nat
        BY <1>3, <4>1
      <4>3. /\ "writing" \in Caller /\ "post" \in Op /\ "post" \in Kind
            /\ Sent(w) \in Entry \cup {NoArg} /\ Sent(w) \in Items["post"]
        BY <1>5 DEF Caller, Op, Kind, Entry, Items
      <4>4. \A k \in 1..n : rq(k).who = w
        BY DEF NewRequest
      <4>5. \A k \in 1..n : /\ rq(k) \in Request /\ rq(k).by = "writing"
                            /\ rq(k).op = "post" /\ rq(k).arg = Sent(w)
        BY <1>2, <4>1, <4>2, <4>3, NewRequestType
      <4> HIDE DEF rq
      <4> QED
        BY <4>3, <4>4, <4>5 DEF Sendable
    <3>3. IsFiniteSet(R)
      <4>1. f \in Surjection(1..n, R)
        BY DEF Surjection
      <4>2. IsFiniteSet(1..n)
        BY <1>3, FS_Interval
      <4> HIDE DEF f, R, n
      <4> QED
        BY <4>1, <4>2, FS_Surjection
    <3>4. net' = (net \ {}) \cup R
      BY <3>1
    <3> HIDE DEF rq
    <3>5. (\A r \in R : Sendable(r)) /\ (\A r \in net \cap {} : r.by # "launch")
      BY <3>2
    <3>6. \A r \in R : r.by = "writing" /\ r.who \in DOMAIN writers
      BY <3>2
    <3> HIDE DEF R
    <3> QED
      BY <1>5, <3>1, <3>3, <3>4, <3>5, <3>6, NetStep
  <2>2. CASE online /\ uid = NoAccount
    BY <1>5, <2>2 DEF reachabilityChanged, NetOK
  <2>3. CASE ~online
    <3> DEFINE added == [k \in 1..n |-> PendingNote(w)]
    <3>1. net' = net /\ queue' = [queue EXCEPT !.post = @ \o added]
      BY <2>3 DEF reachabilityChanged
    <3>2. added \in [1..n -> PendingData]
      BY <1>5
    <3>3. added \in Seq(PendingData) /\ queue.post \in Seq(PendingData)
      BY <1>3, <1>5, <3>2 DEF Queues
    <3> HIDE DEF added
    <3>4. queue.post \o added \in Seq(PendingData)
      BY <3>3, ConcatProperties
    <3>5. queue' \in Queues
      BY <1>5, <3>1, <3>4 DEF Queues
    <3> QED
      BY <1>5, <3>1, <3>5 DEF NetOK
  <2> QED
    BY <2>1, <2>2, <2>3
<1>7. left' \in [Resource -> Nat]
  BY <1>1, AppParts
<1> QED
  BY <1>1, <1>2, <1>4, <1>6, <1>7, WriterActs

LEMMA PostAnsweredKeepsObjects ==
  ASSUME AppInv, NEW r \in net, PostAnswered(r)
  PROVE  notes' \in Seq(UserEntity) /\ SameObjects
<1> DEFINE n == Len(notes)
<1>1. notes' = IF notes = <<>> THEN notes ELSE [notes EXCEPT ![n].noteID = r.id]
  BY DEF PostAnswered
<1>2. n \in Nat /\ DOMAIN notes = 1..n /\ notes \in [1..n -> UserEntity] /\ r.id \in Int
  <2>1. r \in Request
    BY AppParts DEF NetOK
  <2>2. r.id \in Int
    BY <2>1 DEF Request
  <2> QED
    BY <2>2, AppParts, LenProperties
<1> HIDE DEF n
<1>3. CASE notes = <<>>
  BY <1>1, <1>3, AppParts DEF SameObjects
<1>4. CASE notes # <<>>
  <2>1. notes' = [notes EXCEPT ![n].noteID = r.id]
    BY <1>1, <1>4
  <2>2. \A i \in 1..n : /\ notes'[i] = IF i = n THEN [notes[n] EXCEPT !.noteID = r.id]
                                                ELSE notes[i]
                        /\ notes[i] \in UserEntity
    BY <1>2, <2>1
  <2>3. DOMAIN notes' = 1..n /\ notes' = [i \in 1..n |-> notes'[i]]
    BY <1>2, <2>1
  <2>4. \A i \in 1..n : notes'[i] \in UserEntity /\ notes'[i].obj = notes[i].obj
    BY <1>2, <2>2 DEF UserEntity
  <2>5. notes' \in [1..n -> UserEntity]
    BY <2>3, <2>4
  <2> QED
    BY <1>2, <2>3, <2>4, <2>5 DEF SameObjects
<1> QED
  BY <1>3, <1>4

LEMMA PostAnsweredIsOK ==
  ASSUME AppInv, NEW r \in net, PostAnswered(r), UNCHANGED <<chainVars, editor>>
  PROVE  AppInv'
<1>1. /\ r.by = "writing" /\ net' = net \ {r}
      /\ UNCHANGED <<queue, uid, nextObj, server, nextID, userData, running, overlay, online, left,
                     screen, alert, deleteNoteID, writers>>
  BY DEF PostAnswered, WritingRequest, Delivered, remoteVars, homeVars
<1>2. NetOK' /\ \A s : s.by = "launch" => (s \in net' <=> s \in net)
  BY <1>1, AppParts, OneEnds
<1>3. notes' \in Seq(UserEntity) /\ SameObjects
  BY PostAnsweredKeepsObjects
<1>4. ObjectsApart' /\ (Listed(userData, notes) => Listed(userData', notes'))
  BY <1>1, <1>3, AppParts DEF ObjectsApart, Listed, SameObjects
<1>5. DeviceTypeOK' /\ HomeTypeOK' /\ WritingTypeOK' /\ EditTypeOK' /\ Callbacks'
  BY <1>1, <1>2, <1>3, AppParts
  DEF NetOK, DeviceTypeOK, HomeTypeOK, WritingTypeOK, EditTypeOK, Callbacks
<1>6. running /\ (screen' # "off" => deleteNoteID' # <<>> /\ Listed(userData', notes'))
  BY <1>1, <1>4, AppParts DEF AppInv
<1> QED
  BY <1>1, <1>2, <1>4, <1>5, <1>6, ScreenStepIsOK

LEMMA AppWritingIsOK == AppInv /\ AppWriting => AppInv'
<1> SUFFICES ASSUME AppInv, WritingStep, UNCHANGED <<chainVars, editor>> PROVE AppInv'
  BY DEF AppWriting
<1>1. ASSUME NEW r \in net, PostGarbled(r) PROVE AppInv'
  <2>1. queue' \in Queues
    BY <1>1, AppParts DEF PostGarbled, storeVars
  <2> QED
    BY <1>1, <2>1, ScreenRequestEnds DEF PostGarbled, WritingRequest, storeVars
<1>2. ASSUME NEW r \in net, PostFails(r) PROVE AppInv'
  <2> DEFINE e == PendingNote(r.who)
  <2>1. e \in Items["post"] /\ "post" \in Kind
    BY <1>2, AppParts, PendingType DEF PostFails, WritingRequest, Callbacks, Items, Kind
  <2>2. queue' = [queue EXCEPT !["post"] = Append(@, e)]
    BY <1>2 DEF PostFails, Enqueue
  <2> HIDE DEF e
  <2>3. queue' \in Queues
    BY <2>1, <2>2, AppParts, EnqueuedType
  <2> QED
    BY <1>2, <2>3, ScreenRequestEnds DEF PostFails, WritingRequest
<1> QED
  BY <1>1, <1>2, OpenWritingIsOK, closeBTNtappedIsOK, postBTNtappedIsOK, addNoteIsOK,
     reachabilityChangedIsOK, PostAnsweredIsOK DEF WritingStep

\* The id the editor sends, now or later, is one.
LEMMA EditorIDs ==
  ASSUME AppInv, editor.stage \in {"open", "closing"}
  PROVE  editor \in EditNoteVC /\ running /\ NoteIDNow \in Int /\ IDOrBlank \in Int
<1>1. NoEditor.stage \notin {"open", "closing"}
  BY DEF NoEditor
<1>2. editor \in EditNoteVC /\ running
  BY <1>1, AppParts DEF EditTypeOK
<1>3. NoteIDNow \in Int
  <2> DEFINE i == IndexOf(notes, editor.obj)
  <2>1. notes \in Seq(UserEntity) /\ editor.noteID \in Int
    BY <1>2, AppParts DEF EditNoteVC
  <2>2. i # 0 => i \in DOMAIN notes
    BY <2>1, RowOfObject
  <2> HIDE DEF i
  <2>3. i # 0 => notes[i] \in UserEntity
    BY <2>1, <2>2, LenProperties
  <2>4. i # 0 => notes[i].noteID \in Int
    BY <2>3 DEF UserEntity
  <2> QED
    BY <2>1, <2>4 DEF NoteIDNow, i
<1> QED
  BY <1>2, <1>3 DEF IDOrBlank, Blank

\* Writing the row the editor holds.
LEMMA EditKeepsObjects ==
  ASSUME AppInv, editor.stage \in {"open", "closing"}, NEW id \in Int,
         notes' = editUserContext(notes, editor.obj, editor.text, id), nextObj' = nextObj
  PROVE  /\ notes' \in Seq(UserEntity) /\ ObjectsApart'
         /\ SameObjects
<1> DEFINE o == editor.obj
           x == editor.text
<1>1. o \in Nat /\ x \in Text
  BY EditorIDs DEF EditNoteVC
<1>2. notes' = editUserContext(notes, o, x, id)
  OBVIOUS
<1> HIDE DEF o, x
<1>3. /\ notes' \in Seq(UserEntity) /\ DOMAIN notes' = DOMAIN notes
      /\ \A i \in DOMAIN notes : notes'[i].obj = notes[i].obj
  BY <1>1, <1>2, AppParts, EditedRows
<1> QED
  BY <1>3, AppParts DEF ObjectsApart, SameObjects

LEMMA editItemAtIsOK ==
  ASSUME AppInv, NEW row \in DOMAIN userData, NEW text \in Text, editItemAt(row, text),
         UNCHANGED <<chainVars, writers>>
  PROVE  AppInv'
<1> DEFINE n == notes[IndexOf(notes, userData[row])]
<1>1. /\ Spend("edit") /\ screen = "home" /\ screen' = "editing"
      /\ editor' = [stage |-> "open", obj |-> userData[row], text |-> text, due |-> 0,
                    notifies |-> FALSE, noteID |-> n.noteID]
      /\ UNCHANGED <<storeVars, remoteVars, userData, net, running, overlay, online, alert,
                     deleteNoteID>>
  BY DEF editItemAt, Present, Touched
<1>2. n \in UserEntity /\ userData[row] \in Nat
  BY <1>1, TouchFindsRow
<1> HIDE DEF n
<1>3. EditTypeOK'
  BY <1>1, <1>2 DEF EditTypeOK, EditNoteVC, UserEntity
<1>4. HomeTypeOK' /\ WritingTypeOK'
  BY <1>1, AppParts DEF HomeTypeOK, Screen, WritingTypeOK
<1>5. left' \in [Resource -> Nat]
  BY <1>1, AppParts, SpendsType
<1> QED
  BY <1>1, <1>3, <1>4, <1>5, AppParts, TouchIsOK

LEMMA EditClosesIsOK ==
  ASSUME AppInv, editCloseTapped \/ EditDismissed, UNCHANGED <<chainVars, writers>>
  PROVE  AppInv'
<1>1. /\ editor.stage \in {"open", "closing"} /\ editor' = NoEditor
      /\ screen' = IF screen = "editing" THEN "home" ELSE screen
      /\ UNCHANGED <<deviceVars, alert, deleteNoteID>>
  BY DEF editCloseTapped, EditDismissed, EditEnds, BackHome
<1>2. HomeTypeOK' /\ WritingTypeOK' /\ EditTypeOK' /\ running
  BY <1>1, EditorIDs, AppParts DEF HomeTypeOK, Screen, WritingTypeOK, EditTypeOK
<1>3. left' \in [Resource -> Nat]
  BY <1>1, AppParts DEF deviceVars
<1> QED
  BY <1>1, <1>2, <1>3, TouchIsOK DEF deviceVars

LEMMA editPostTappedIsOK ==
  ASSUME AppInv, editPostTapped, UNCHANGED <<chainVars, writers>>
  PROVE  AppInv'
<1>1. /\ editor.stage = "open"
      /\ notes' = editUserContext(notes, editor.obj, editor.text, IDOrBlank)
      /\ SaveUserData(notes')
      /\ UNCHANGED <<queue, uid, nextObj, server, nextID, net, running, overlay, online,
                     screen, alert, deleteNoteID>>
  BY DEF editPostTapped, remoteVars, homeVars
<1>2. editor \in EditNoteVC /\ running /\ IDOrBlank \in Int
  BY <1>1, EditorIDs
<1>3. EditTypeOK' /\ left' \in [Resource -> Nat]
  <2>1. PICK starts \in BOOLEAN :
           /\ SpendAll({x \in {"start"} : uid # NoAccount /\ ~starts})
           /\ editor' = [editor EXCEPT !.stage = "closing", !.noteID = IDOrBlank,
                                       !.notifies = starts, !.due = IF starts THEN 1 ELSE 0]
    BY DEF editPostTapped
  <2>2. {x \in {"start"} : uid # NoAccount /\ ~starts} \subseteq Resource
    BY ScreenLimits
  <2> DEFINE d == IF starts THEN 1 ELSE 0
             id == IDOrBlank
  <2>3. /\ d \in Nat /\ id \in Int
        /\ editor' = [editor EXCEPT !.stage = "closing", !.noteID = id,
                                    !.notifies = starts, !.due = d]
    BY <1>2, <2>1
  <2> HIDE DEF d, id
  <2>4. editor' \in EditNoteVC
    BY <1>2, <2>3 DEF EditNoteVC
  <2> QED
    BY <2>1, <2>2, <2>4, AppParts, SpentType DEF EditTypeOK
<1>4. notes' \in Seq(UserEntity) /\ ObjectsApart'
  BY <1>1, <1>2, EditKeepsObjects
<1>5. userData' \in Seq(Nat) /\ Listed(userData', notes')
  BY <1>1, <1>4, ReloadedAfter
<1>6. NetOK' /\ DeviceTypeOK' /\ HomeTypeOK' /\ WritingTypeOK' /\ Callbacks'
  BY <1>1, <1>3, <1>4, <1>5, AppParts
  DEF NetOK, DeviceTypeOK, HomeTypeOK, WritingTypeOK, Callbacks
<1>7. screen' # "off" => deleteNoteID' # <<>>
  BY <1>1 DEF AppInv
<1> QED
  BY <1>1, <1>2, <1>3, <1>4, <1>5, <1>6, <1>7, ScreenStepIsOK

LEMMA editReachabilityChangedIsOK ==
  ASSUME AppInv, editReachabilityChanged, UNCHANGED <<chainVars, writers>>
  PROVE  AppInv'
<1> DEFINE id == NoteIDNow
           e == [noteID |-> id, text |-> editor.text]
<1>1. /\ editor.stage = "closing" /\ editor.due > 0
      /\ editor' = [editor EXCEPT !.due = @ - 1]
      /\ UNCHANGED <<uid, nextObj, server, nextID, userData, running, overlay, online, left,
                     screen, alert, deleteNoteID>>
  BY DEF editReachabilityChanged, remoteVars, homeVars
<1>2. editor \in EditNoteVC /\ running /\ id \in Int
  BY <1>1, EditorIDs
<1>3. EditTypeOK'
  BY <1>1, <1>2 DEF EditTypeOK, EditNoteVC
<1>4. e \in Items["edit"] /\ "edit" \in Kind
  BY <1>2 DEF Items, EditPendingData, EditNoteVC, Kind
<1>5. /\ NetOK' /\ \A r : r.by = "launch" => (r \in net' <=> r \in net)
      /\ \A r \in net' : r \in net \/ r.by = "editing"
      /\ queue' \in Queues /\ notes' \in Seq(UserEntity) /\ ObjectsApart'
      /\ SameObjects
  <2>1. CASE online
    <3> DEFINE r == NewRequest("editing", 1, Fresh("editing"), "edit", e)
    <3>1. net' = net \cup {r} /\ UNCHANGED <<notes, queue>>
      BY <2>1 DEF editReachabilityChanged
    <3>2. Sendable(r) /\ r.by = "editing"
      <4>1. Fresh("editing") \in Nat /\ uid \in Account \cup {NoAccount}
        BY FreshIsUnused, AppParts
      <4>2. "editing" \in Caller /\ "edit" \in Op /\ e \in Entry \cup {NoArg} /\ 1 \in Nat
        BY <1>4 DEF Caller, Op, Kind, Entry, Items
      <4> HIDE DEF e
      <4>3. r \in Request /\ r.by = "editing" /\ r.op = "edit" /\ r.arg = e
        BY <4>1, <4>2, NewRequestType
      <4> HIDE DEF r
      <4> QED
        BY <1>4, <4>3 DEF Sendable
    <3> HIDE DEF r
    <3>3. NetOK' /\ \A s : s.by = "launch" => (s \in net' <=> s \in net)
      BY <3>1, <3>2, AppParts, OneStarts
    <3> QED
      BY <1>1, <3>1, <3>2, <3>3, AppParts DEF ObjectsApart, SameObjects
  <2>2. CASE ~online
    <3>1. /\ net' = net /\ notes' = editUserContext(notes, editor.obj, editor.text, id)
          /\ queue' = [queue EXCEPT !["edit"] = Append(@, e)]
      BY <2>2 DEF editReachabilityChanged, Enqueue
    <3> HIDE DEF e, id
    <3>2. queue' \in Queues
      BY <1>4, <3>1, AppParts, EnqueuedType
    <3>3. /\ notes' \in Seq(UserEntity) /\ ObjectsApart'
          /\ SameObjects
      BY <1>1, <1>2, <3>1, EditKeepsObjects
    <3> QED
      BY <3>1, <3>2, <3>3, AppParts DEF NetOK
  <2> QED
    BY <2>1, <2>2
<1>6. DeviceTypeOK' /\ HomeTypeOK' /\ WritingTypeOK' /\ Callbacks'
  BY <1>1, <1>5, AppParts DEF NetOK, DeviceTypeOK, HomeTypeOK, WritingTypeOK, Callbacks
<1>7. screen' # "off" => deleteNoteID' # <<>> /\ Listed(userData', notes')
  BY <1>1, <1>5, StillListed DEF AppInv, SameObjects
<1> QED
  BY <1>1, <1>2, <1>3, <1>5, <1>6, <1>7, ScreenStepIsOK

LEMMA AppEditIsOK == AppInv /\ AppEdit => AppInv'
<1> SUFFICES ASSUME AppInv, EditStep, UNCHANGED <<chainVars, writers>> PROVE AppInv'
  BY DEF AppEdit
<1>1. ASSUME NEW r \in net, EditAnswered(r) PROVE AppInv'
  <2>1. queue' \in Queues
    BY <1>1, AppParts DEF EditAnswered, storeVars
  <2> QED
    BY <1>1, <2>1, ScreenRequestEnds DEF EditAnswered, storeVars
<1> QED
  BY <1>1, editItemAtIsOK, EditClosesIsOK, editPostTappedIsOK, editReachabilityChangedIsOK
  DEF EditStep

\* What is left to show of a step of the session.
LEMMA SessionActs ==
  ASSUME AppInv, running,
         NetOK', \A r : r.by = "launch" => (r \in net' <=> r \in net),
         \A r \in net' : r \in net \/ r.by \in {"signUp", "menu"},
         notes' \in Seq(UserEntity), queue' \in Queues, uid' \in Account \cup {NoAccount},
         nextObj' \in Nat \ {0}, userData' \in Seq(Nat), overlay' \in BOOLEAN,
         left' \in [Resource -> Nat], ObjectsApart', screen' \in Screen,
         screen' # "off" => screen # "off" /\ Listed(userData', notes'),
         UNCHANGED <<chainVars, remoteVars, running, online, alert, deleteNoteID, writers,
                     editor>>
  PROVE  AppInv'
<1>1. UNCHANGED <<server, nextID>>
  BY DEF remoteVars
<1>2. DeviceTypeOK'
  BY <1>1, AppParts DEF NetOK, DeviceTypeOK
<1>3. HomeTypeOK' /\ WritingTypeOK' /\ EditTypeOK' /\ Callbacks'
  BY AppParts DEF HomeTypeOK, WritingTypeOK, EditTypeOK, Callbacks
<1>4. screen' # "off" => deleteNoteID' # <<>>
  BY DEF AppInv
<1> QED
  BY <1>2, <1>3, <1>4, ScreenStepIsOK

\* A request of the session's.
LEMMA SessionSends ==
  ASSUME AppInv, NEW by \in {"signUp", "menu"}, NEW idx \in Nat,
         NEW op \in {"register", "fetch", "deleteUser"}, NEW account \in Account \cup {NoAccount},
         NEW r, r = [NewRequest(by, 1, idx, op, NoArg) EXCEPT !.owner = account]
                  \/ r = NewRequest(by, 1, idx, op, NoArg)
  PROVE  Sendable(r) /\ r.by \in {"signUp", "menu"}
<1> DEFINE t == NewRequest(by, 1, idx, op, NoArg)
<1>1. /\ by \in Caller /\ 1 \in Nat /\ op \in Op /\ op \notin Kind /\ by # "launch"
      /\ NoArg \in Entry \cup {NoArg}
  BY DEF Caller, Op, Kind
<1>2. t \in Request /\ t.by = by /\ t.op = op
  <2>1. uid \in Account \cup {NoAccount}
    BY AppParts
  <2> QED
    BY <1>1, <2>1, NewRequestType
<1> HIDE DEF t
<1>3. r \in Request /\ r.by = by /\ r.op = op
  <2>1. r = t \/ r = [t EXCEPT !.owner = account]
    BY DEF t
  <2> QED
    BY <1>2, <2>1 DEF Request
<1> QED
  BY <1>1, <1>3 DEF Sendable

\* BackHome never wakes a screen that is off.
LEMMA BackHomeType ==
  ASSUME HomeTypeOK, NEW from \in Screen \ {"off"}, BackHome(from)
  PROVE  screen' \in Screen /\ (screen' # "off" => screen # "off")
BY DEF HomeTypeOK, Screen, BackHome

LEMMA SignInIsOK ==
  ASSUME AppInv, NEW account \in Account, SignIn(account), UNCHANGED <<chainVars, writers, editor>>
  PROVE  AppInv'
<1> DEFINE r == [NewRequest("signUp", 1, Fresh("signUp"), "register", NoArg)
                   EXCEPT !.owner = account]
<1>1. /\ Spend("signIn") /\ screen = "home" /\ screen' = "signUp" /\ uid' = account
      /\ net' = net \cup {r} /\ overlay' = running
      /\ UNCHANGED <<notes, queue, nextObj, remoteVars, userData, running, online, alert,
                     deleteNoteID>>
  BY DEF SignIn, Present, Touched, StartLoader
<1>2. Fresh("signUp") \in Nat
  BY AppParts, FreshIsUnused
<1>3. Sendable(r) /\ r.by \in {"signUp", "menu"}
  BY <1>2, SessionSends
<1> HIDE DEF r
<1>4. NetOK' /\ \A s : s.by = "launch" => (s \in net' <=> s \in net)
  BY <1>1, <1>3, AppParts, OneStarts
<1>5. left' \in [Resource -> Nat]
  BY <1>1, AppParts, SpendsType
<1>6. /\ running /\ nextObj \in Nat \ {0} /\ overlay' \in BOOLEAN
      /\ screen' \in Screen /\ Listed(userData, notes) /\ ObjectsApart'
  BY <1>1, AppParts DEF AppInv, DeviceTypeOK, Screen, ObjectsApart
<1> QED
  BY <1>1, <1>3, <1>4, <1>5, <1>6, AppParts, SessionActs

LEMMA SignUpBackIsOK ==
  ASSUME AppInv, SignUpBack, UNCHANGED <<chainVars, writers, editor>>
  PROVE  AppInv'
<1>1. /\ screen = "signUp" /\ screen' = "home" /\ UNCHANGED <<deviceVars, alert, deleteNoteID>>
  BY DEF SignUpBack, Touched, BackHome
<1>2. HomeTypeOK' /\ WritingTypeOK' /\ EditTypeOK' /\ left' \in [Resource -> Nat]
  BY <1>1, AppParts DEF HomeTypeOK, Screen, WritingTypeOK, EditTypeOK, deviceVars
<1> QED
  BY <1>1, <1>2, AppParts, TouchIsOK DEF deviceVars

LEMMA RegisteredIsOK ==
  ASSUME AppInv, NEW r \in net, Registered(r), UNCHANGED <<chainVars, writers, editor>>
  PROVE  AppInv'
<1> DEFINE t == NewRequest("signUp", 1, r.idx, "fetch", NoArg)
<1>1. /\ r.by = "signUp" /\ net' = (net \ {r}) \cup {t} /\ overlay' = FALSE
      /\ UNCHANGED <<notes, queue, uid, nextObj, remoteVars, userData, running, online, left,
                     screen, alert, deleteNoteID>>
  BY DEF Registered, SignUpRequest, Delivered, StopLoader, storeVars, homeVars
<1>2. Sendable(t) /\ t.by \in {"signUp", "menu"}
  <2>1. r.idx \in Nat
    BY AppParts DEF NetOK, Request
  <2> QED
    BY <2>1, SessionSends, AppParts
<1> HIDE DEF t
<1>3. NetOK' /\ \A s : s.by = "launch" => (s \in net' <=> s \in net)
  <2>1. IsFiniteSet({t}) /\ (\A s \in {t} : Sendable(s)) /\ (\A s \in net \cap {r} : s.by # "launch")
    BY <1>1, <1>2, FS_Singleton
  <2> QED
    BY <1>1, <2>1, AppParts, NetStep
<1>4. /\ running /\ nextObj \in Nat \ {0} /\ overlay' \in BOOLEAN /\ screen' \in Screen
      /\ ObjectsApart' /\ (screen # "off" => Listed(userData, notes))
  BY <1>1, AppParts DEF AppInv, DeviceTypeOK, HomeTypeOK, ObjectsApart
<1> QED
  BY <1>1, <1>2, <1>3, <1>4, AppParts, SessionActs

\* The rows of an answer, as the sign-up sheet adds them.
LEMMA FetchedRows ==
  ASSUME AppInv, NEW r \in net,
         NEW new, new = [i \in DOMAIN r.rows |->
                           NewRow(nextObj + i - 1, r.rows[i].text, Len(notes) + i, r.rows[i].id)]
  PROVE  /\ new \in Seq(UserEntity) /\ Len(new) = Len(r.rows) /\ DOMAIN new = DOMAIN r.rows
         /\ \A i \in DOMAIN new : /\ new[i].obj = nextObj + i - 1
                                  /\ new[i].noteID = r.rows[i].id
<1> DEFINE row(i) == NewRow(nextObj + i - 1, r.rows[i].text, Len(notes) + i, r.rows[i].id)
           m == Len(r.rows)
<1>1. r.rows \in Seq(ServerNote)
  BY AppParts DEF NetOK, Request
<1>2. m \in Nat /\ DOMAIN r.rows = 1..m /\ \A i \in 1..m : r.rows[i] \in ServerNote
  BY <1>1, LenProperties
<1>3. nextObj \in Nat \ {0} /\ Len(notes) \in Nat
  BY AppParts, LenProperties DEF DeviceTypeOK
<1> HIDE DEF m
<1>4. \A i \in 1..m : /\ nextObj + i - 1 \in Nat /\ Len(notes) + i \in Int
                      /\ r.rows[i].text \in Text /\ r.rows[i].id \in Int
  BY <1>2, <1>3 DEF ServerNote
<1>5. \A i \in 1..m : /\ row(i) \in UserEntity /\ row(i).obj = nextObj + i - 1
                      /\ row(i).noteID = r.rows[i].id
  BY <1>4 DEF NewRow, UserEntity
<1>6. new = [i \in 1..m |-> row(i)]
  BY <1>2
<1> HIDE DEF row
<1>7. new \in [1..m -> UserEntity] /\ DOMAIN new = 1..m /\ \A i \in 1..m : new[i] = row(i)
  BY <1>5, <1>6
<1>8. new \in Seq(UserEntity) /\ Len(new) = m
  BY <1>2, <1>7
<1> QED
  BY <1>2, <1>5, <1>7, <1>8 DEF m

LEMMA SignUpFetchedIsOK ==
  ASSUME AppInv, NEW r \in net, SignUpFetched(r), UNCHANGED <<chainVars, writers, editor>>
  PROVE  AppInv'
<1> DEFINE row(i) == NewRow(nextObj + i - 1, r.rows[i].text, Len(notes) + i, r.rows[i].id)
           new == [i \in DOMAIN r.rows |-> row(i)]
           m == Len(r.rows)
<1>1. /\ r.by = "signUp" /\ net' = net \ {r} /\ overlay' = FALSE /\ BackHome("signUp")
      /\ notes' = notes \o new /\ nextObj' = nextObj + m
      /\ screen = "signUp" => SaveUserData(notes')
      /\ screen # "signUp" => userData' = userData
      /\ UNCHANGED <<queue, uid, remoteVars, running, online, left, alert, deleteNoteID>>
  BY DEF SignUpFetched, SignUpRequest, Delivered, SignUpEnds, StopLoader
<1>2. NetOK' /\ \A s : s.by = "launch" => (s \in net' <=> s \in net)
  BY <1>1, AppParts, OneEnds
<1>3. new \in Seq(UserEntity) /\ Len(new) = m /\ \A i \in DOMAIN new : new[i].obj = nextObj + i - 1
  BY FetchedRows
<1> HIDE DEF new, m
<1>4. /\ notes' \in Seq(UserEntity) /\ nextObj' \in Nat \ {0} /\ ObjectsApart'
      /\ \A i \in DOMAIN notes : i \in DOMAIN notes' /\ notes'[i] = notes[i]
  BY <1>1, <1>3, AppParts, RowsAdded
<1>5. screen' \in Screen /\ (screen' # "off" => screen # "off")
  <2>1. HomeTypeOK /\ "signUp" \in Screen \ {"off"}
    BY AppParts DEF Screen
  <2> QED
    BY <1>1, <2>1, BackHomeType
<1>6. userData' \in Seq(Nat) /\ (screen # "off" => Listed(userData', notes'))
  <2>1. CASE screen = "signUp"
    BY <1>1, <1>4, <2>1, ReloadedAfter
  <2>2. CASE screen # "signUp"
    <3>1. screen # "off" => Listed(userData, notes)
      BY DEF AppInv
    <3> QED
      BY <1>1, <1>4, <2>2, <3>1, StillListed, AppParts
  <2> QED
    BY <2>1, <2>2
<1> QED
  BY <1>1, <1>2, <1>4, <1>5, <1>6, AppParts, SessionActs

LEMMA SignUpFailsIsOK ==
  ASSUME AppInv, NEW r \in net, SignUpFails(r), UNCHANGED <<chainVars, writers, editor>>
  PROVE  AppInv'
<1>1. /\ r.by = "signUp" /\ Failed(r) /\ net' = net \ {r} /\ overlay' = FALSE
      /\ BackHome("signUp")
      /\ userData' = userData \/ SaveUserData(notes)
      /\ UNCHANGED <<notes, queue, uid, nextObj, remoteVars, running, online, alert,
                     deleteNoteID>>
  BY DEF SignUpFails, SignUpEnds, StopLoader, storeVars
<1>2. NetOK' /\ \A s : s.by = "launch" => (s \in net' <=> s \in net)
  BY <1>1, AppParts, OneEnds
<1>3. userData' \in Seq(Nat) /\ (Listed(userData, notes) => Listed(userData', notes))
  BY <1>1, AppParts, ReloadedList
<1>4. screen' \in Screen /\ (screen' # "off" => screen # "off")
  <2>1. HomeTypeOK /\ "signUp" \in Screen \ {"off"}
    BY AppParts DEF Screen
  <2> QED
    BY <1>1, <2>1, BackHomeType
<1>5. /\ left' \in [Resource -> Nat] /\ nextObj \in Nat \ {0} /\ ObjectsApart'
      /\ screen # "off" => Listed(userData, notes)
  BY <1>1, AppParts, FailedType DEF AppInv, DeviceTypeOK, ObjectsApart
<1> QED
  BY <1>1, <1>2, <1>3, <1>4, <1>5, AppParts, SessionActs

\* The phone is emptied and Splash is on screen.
LEMMA EmptyIsOK ==
  ASSUME AppInv, running, EmptyThePhone, left' \in [Resource -> Nat],
         NetOK', \A r : r.by = "launch" => (r \in net' <=> r \in net), net' \subseteq net,
         overlay' \in BOOLEAN,
         UNCHANGED <<chainVars, remoteVars, running, online, writers, editor>>
  PROVE  AppInv'
<1>1. /\ uid' = NoAccount /\ queue' = NoQueues /\ notes' = <<>> /\ screen' = "off"
      /\ UNCHANGED <<nextObj, userData, alert, deleteNoteID>>
  BY DEF EmptyThePhone
<1>2. /\ <<>> \in Seq(UserEntity) /\ <<>> \in Seq(DeletePendingData)
      /\ <<>> \in Seq(EditPendingData) /\ <<>> \in Seq(PendingData)
  BY EmptySeq
<1>3. notes' \in Seq(UserEntity) /\ queue' \in Queues
  BY <1>1, <1>2 DEF NoQueues, Queues
<1>4. ObjectsApart' /\ nextObj \in Nat \ {0} /\ "off" \in Screen
  BY <1>1, AppParts DEF ObjectsApart, DeviceTypeOK, Screen
<1> QED
  BY <1>1, <1>3, <1>4, AppParts, SessionActs

LEMMA AppSessionIsOK == AppInv /\ AppSession => AppInv'
<1> SUFFICES ASSUME AppInv, SessionStep, UNCHANGED <<chainVars, writers, editor>> PROVE AppInv'
  BY DEF AppSession
<1>1. ASSUME NEW r \in net, AccountDeleted(r) PROVE AppInv'
  <2>1. /\ r.by = "menu" /\ net' = net \ {r} /\ overlay' = FALSE /\ EmptyThePhone
        /\ UNCHANGED <<remoteVars, running, online, left>>
    BY <1>1 DEF AccountDeleted, Delivered, StopLoader
  <2>2. NetOK' /\ \A s : s.by = "launch" => (s \in net' <=> s \in net)
    BY <2>1, AppParts, OneEnds
  <2> QED
    BY <2>1, <2>2, AppParts, EmptyIsOK
<1>2. ASSUME NEW r \in net, AccountDeletionFails(r) PROVE AppInv'
  <2>1. /\ r.by = "menu" /\ Failed(r) /\ net' = net \ {r} /\ overlay' = FALSE
        /\ BackHome("menu")
        /\ UNCHANGED <<notes, queue, uid, nextObj, remoteVars, userData, running, online, alert,
                       deleteNoteID>>
    BY <1>2 DEF AccountDeletionFails, StopLoader, storeVars
  <2>2. NetOK' /\ \A s : s.by = "launch" => (s \in net' <=> s \in net)
    BY <2>1, AppParts, OneEnds
  <2>3. screen' \in Screen /\ (screen' # "off" => screen # "off")
    <3>1. HomeTypeOK /\ "menu" \in Screen \ {"off"}
      BY AppParts DEF Screen
    <3> QED
      BY <2>1, <3>1, BackHomeType
  <2>4. /\ left' \in [Resource -> Nat] /\ nextObj \in Nat \ {0} /\ ObjectsApart'
        /\ screen # "off" => Listed(userData, notes)
    BY <2>1, AppParts, FailedType DEF AppInv, DeviceTypeOK, ObjectsApart
  <2> QED
    BY <2>1, <2>2, <2>3, <2>4, AppParts, SessionActs
<1>3. ASSUME handleLogout PROVE AppInv'
  <2>1. /\ Spend("signOut") /\ screen = "home" /\ EmptyThePhone
        /\ UNCHANGED <<remoteVars, net, running, overlay, online>>
    BY <1>3 DEF handleLogout, Touched
  <2>2. left' \in [Resource -> Nat]
    BY <2>1, AppParts, SpendsType
  <2>3. NetOK' /\ running /\ overlay' \in BOOLEAN
    BY <2>1, AppParts DEF NetOK, DeviceTypeOK
  <2> QED
    BY <2>1, <2>2, <2>3, EmptyIsOK
<1>4. ASSUME deleteUserData PROVE AppInv'
  <2> DEFINE r == NewRequest("menu", 1, 1, "deleteUser", NoArg)
  <2>1. /\ Spend("signOut") /\ screen = "home" /\ screen' = "menu"
        /\ net' = net \cup {r} /\ overlay' = running
        /\ UNCHANGED <<notes, queue, uid, nextObj, remoteVars, userData, running, online, alert,
                       deleteNoteID>>
    BY <1>4 DEF deleteUserData, Present, Touched, StartLoader, storeVars
  <2>2. Sendable(r) /\ r.by \in {"signUp", "menu"}
    BY SessionSends, AppParts
  <2> HIDE DEF r
  <2>3. NetOK' /\ \A s : s.by = "launch" => (s \in net' <=> s \in net)
    BY <2>1, <2>2, AppParts, OneStarts
  <2>4. left' \in [Resource -> Nat]
    BY <2>1, AppParts, SpendsType
  <2>5. /\ running /\ nextObj \in Nat \ {0} /\ overlay' \in BOOLEAN
        /\ screen' \in Screen /\ Listed(userData, notes) /\ ObjectsApart'
    BY <2>1, AppParts DEF AppInv, DeviceTypeOK, Screen, ObjectsApart
  <2> QED
    BY <2>1, <2>2, <2>3, <2>4, <2>5, AppParts, SessionActs
<1> QED
  BY <1>1, <1>2, <1>3, <1>4, SignInIsOK, SignUpBackIsOK, RegisteredIsOK, SignUpFetchedIsOK,
     SignUpFailsIsOK DEF SessionStep

\* iOS, or a trap, ends the process.
LEMMA AppEndsIsOK == AppInv /\ (AppTraps \/ AppKilled) => AppInv'
<1> SUFFICES ASSUME AppInv, AppTraps \/ AppKilled PROVE AppInv'
  OBVIOUS
<1>1. AllEnds /\ (left' = left \/ Spend("kill"))
  BY DEF AppTraps, DeleteTraps, AppKilled
<1>2. left' \in [Resource -> Nat]
  BY <1>1, AppParts, SpendsType
<1> QED
  BY <1>1, <1>2, ProcessEndsIsOK

LEMMA AppFlipIsOK == AppInv /\ AppFlip => AppInv'
<1> SUFFICES ASSUME AppInv, AppFlip PROVE AppInv'
  OBVIOUS
<1>1. /\ Spend("flip") /\ online' \in BOOLEAN
      /\ UNCHANGED <<notes, queue, uid, nextObj, server, nextID, userData, net, running,
                     overlay, screen, alert, deleteNoteID>>
      /\ ReportToWriters /\ ReportToEditor /\ UNCHANGED chainVars
  BY DEF AppFlip, NetworkChanges, storeVars, remoteVars, homeVars
<1>2. LaunchInv'
  <2>1. Flip
    BY DEF AppFlip, Flip
  <2> QED
    BY <2>1, FlipIsOK, AppParts
<1>3. WritingTypeOK' /\ DOMAIN writers' = DOMAIN writers /\ (writers = <<>> => writers' = <<>>)
  <2> DEFINE told(w) == [writers[w] EXCEPT !.due = @ + 1]
             vc(w) == IF Alive(w) /\ writers[w].notifies THEN told(w) ELSE writers[w]
             n == Len(writers)
  <2>1. writers \in Seq(WritingVC)
    BY AppParts DEF WritingTypeOK
  <2>2. n \in Nat /\ DOMAIN writers = 1..n /\ \A w \in 1..n : writers[w] \in WritingVC
    BY <2>1, LenProperties
  <2>3. writers' = [w \in 1..n |-> vc(w)]
    BY <1>1, <2>2 DEF ReportToWriters
  <2>4. \A w \in 1..n : told(w) \in WritingVC
    BY <2>2 DEF WritingVC
  <2> HIDE DEF told
  <2>5. \A w \in 1..n : vc(w) \in WritingVC
    BY <2>2, <2>4
  <2> HIDE DEF vc
  <2>6. writers' \in [1..n -> WritingVC] /\ DOMAIN writers' = 1..n
    BY <2>3, <2>5
  <2>7. writers = <<>> => n = 0
    BY <2>1, EmptySeq
  <2> HIDE DEF n
  <2>8. writers' \in Seq(WritingVC)
    BY <2>2, <2>6
  <2>9. Len(writers') = n
    BY <2>2, <2>6, <2>8, LenProperties
  <2> QED
    BY <2>2, <2>6, <2>7, <2>8, <2>9, EmptySeq DEF WritingTypeOK
<1>4. EditTypeOK' /\ (editor = NoEditor => editor' = NoEditor)
  <2>1. NoEditor.stage # "closing"
    BY DEF NoEditor
  <2>2. CASE editor.stage = "closing" /\ editor.notifies
    <3>1. editor \in EditNoteVC
      BY <2>1, <2>2, AppParts DEF EditTypeOK
    <3>2. editor' = [editor EXCEPT !.due = @ + 1]
      BY <1>1, <2>2 DEF ReportToEditor
    <3> QED
      BY <2>1, <2>2, <3>1, <3>2 DEF EditTypeOK, EditNoteVC
  <2>3. CASE ~(editor.stage = "closing" /\ editor.notifies)
    BY <1>1, <2>3, AppParts DEF ReportToEditor, EditTypeOK
  <2> QED
    BY <2>2, <2>3
<1>5. HomeTypeOK' /\ NoProcess' /\ Callbacks'
  BY <1>1, <1>3, <1>4 DEF AppInv, HomeTypeOK, NoProcess, Callbacks
<1> QED
  BY <1>1, <1>2, <1>3, <1>4, <1>5 DEF AppInv, Listed

LEMMA AppStutterIsOK == AppInv /\ UNCHANGED appVars => AppInv'
<1> SUFFICES ASSUME AppInv, UNCHANGED appVars PROVE AppInv'
  OBVIOUS
<1>1. UNCHANGED launchVars /\ UNCHANGED screenVars
  BY DEF appVars, launchVars
<1>2. LaunchInv'
  BY <1>1, StutterIsOK DEF AppInv
<1>3. UNCHANGED <<notes, userData, net, running>>
  BY <1>1 DEF launchVars, deviceVars, storeVars
<1> QED
  BY <1>1, <1>2, <1>3, ScreensUntouched DEF AppInv

---------------------------------------------------------------------------
(* The theorems.                                                           *)

LEMMA AppInvStays == AppInv /\ [AppNext]_appVars => AppInv'
BY AppLaunchIsOK, AppChainIsOK, AppServerIsOK, AppHomeIsOK, AppWritingIsOK, AppEditIsOK,
   AppSessionIsOK, AppEndsIsOK, AppFlipIsOK, AppStutterIsOK DEF AppNext

\* The launch, the screens, the session, the server and iOS together keep the
\* invariant.
THEOREM AppInvariantHolds == AppSpec => []AppInv
<1>1. AppInit => AppInv
  BY AppInitIsOK
<1>2. AppInv /\ [AppNext]_appVars => AppInv'
  BY AppInvStays
<1> QED
  BY <1>1, <1>2, PTL DEF AppSpec

\* What the components of the app share and keep has its type, whatever they
\* do to each other.
THEOREM AppTypeCorrect == AppSpec => []AppTypeOK
<1>1. AppInv => AppTypeOK
  BY DEF AppInv, LaunchInv, ChainOK, TypeOK, AppTypeOK
<1> QED
  BY <1>1, AppInvariantHolds, PTL

\* The DispatchGroup stays a barrier while the user writes, edits, deletes and
\* signs in and out under the launch synchronisation.
THEOREM BarrierUnderTheScreens == AppSpec => []Barrier
<1>1. AppInv => Barrier
  BY DEF AppInv, LaunchInv, ChainOK
<1> QED
  BY <1>1, AppInvariantHolds, PTL

\* The offsets stay sound too, though the queue may have grown under them.
THEOREM OffsetsUnderTheScreens == AppSpec => []OffsetsSound
<1>1. AppInv => OffsetsSound
  BY DEF AppInv, LaunchInv, ChainOK
<1> QED
  BY <1>1, AppInvariantHolds, PTL

\* A row the user can touch is in the store: editing, deleting and opening a
\* listed note never dereference an object that is gone, however the launch's
\* merge, a sign-in and the pending blocks interleave with the touches.
THEOREM ListedNotesAreStored == AppSpec => []ListedNotesExist
<1>1. AppInv => ListedNotesExist
  <2> SUFFICES ASSUME AppInv, screen # "off", NEW i \in DOMAIN userData
               PROVE  IndexOf(notes, userData[i]) # 0
    BY DEF ListedNotesExist
  <2>1. IndexOf(notes, userData[i]) \in DOMAIN notes /\ DOMAIN notes = 1..Len(notes)
    BY TouchFindsRow, AppParts, LenProperties
  <2> QED
    BY <2>1
<1> QED
  BY <1>1, AppInvariantHolds, PTL

---------------------------------------------------------------------------
(* The list and the rows, while nobody signs in.                           *)

\* What there is none of comes to no one.
LEMMA NoneLeft ==
  ASSUME AppInv, AppNext, NEW x \in Resource, left[x] = 0
  PROVE  left'[x] = 0
<1>1. ASSUME NEW S, SpendAll(S) PROVE left'[x] = 0
  BY <1>1 DEF SpendAll
<1>2. ASSUME NEW r, Failed(r) PROVE left'[x] = 0
  BY <1>1, <1>2 DEF Failed, Spend
<1>3. CASE AppLaunch \/ AppServer \/ AppTraps
  BY <1>3 DEF AppLaunch, AppServer, AppTraps, Launch, ServerStep, ServerAddsNote,
     ServerEditsNote, ServerDeletesNote, ServerListsNotes, ServerDeletesUser, ServerRegisters,
     Answer, DeleteTraps
<1>4. CASE AppKilled \/ AppFlip
  BY <1>1, <1>4 DEF AppKilled, AppFlip, NetworkChanges, Spend
<1>5. CASE AppChain
  BY <1>2, <1>5 DEF AppChain, LaunchStep, Notify, NotifyDeletes, NotifyEdits, NotifyPosts,
     LaunchRequestSucceeds, LaunchRequestFails, FetchSucceeds, FetchFails, Delivered
<1>6. CASE AppHome
  BY <1>1, <1>2, <1>6 DEF AppHome, HomeStep, HomeAppears, deleteItemAt, DeleteCancelled,
     DeleteRefused, DeleteConfirmed, DeleteAnswered, DeleteFails, Delivered, Spend, deviceVars
<1>7. CASE AppWriting
  BY <1>1, <1>2, <1>7 DEF AppWriting, WritingStep, OpenWriting, closeBTNtapped, postBTNtapped,
     TapQueues, TapStarts, addNote, reachabilityChanged, PostAnswered, PostGarbled, PostFails,
     Delivered, Spend, deviceVars
<1>8. CASE AppEdit
  BY <1>1, <1>2, <1>8 DEF AppEdit, EditStep, editItemAt, editCloseTapped, editPostTapped,
     editReachabilityChanged, EditDismissed, EditAnswered, Delivered, Spend, deviceVars
<1>9. CASE AppSession
  BY <1>1, <1>2, <1>9 DEF AppSession, SessionStep, SignIn, SignUpBack, Registered,
     SignUpFetched, SignUpFails, AccountDeleted, AccountDeletionFails, handleLogout,
     deleteUserData, Delivered, Spend, deviceVars
<1> QED
  BY <1>3, <1>4, <1>5, <1>6, <1>7, <1>8, <1>9 DEF AppNext

\* Nobody signs in: no sheet is at work, and none will be.
NobodySignsIn == left["signIn"] = 0 /\ \A r \in net : r.by # "signUp"

Mirrors(list, rows) == list = [i \in DOMAIN rows |-> Reverse(rows)[i].obj]

LEMMA StillMirrors ==
  ASSUME NEW list, NEW rows \in Seq(UserEntity), NEW t \in Seq(UserEntity), Mirrors(list, rows),
         DOMAIN t = DOMAIN rows, \A i \in DOMAIN rows : t[i].obj = rows[i].obj
  PROVE  Mirrors(list, t)
<1> DEFINE n == Len(rows)
<1>1. n \in Nat /\ DOMAIN rows = 1..n /\ Len(t) = n
  BY LenProperties
<1>2. \A i \in 1..n : (n - i) + 1 \in 1..n
  BY <1>1
<1>3. \A i \in 1..n : Reverse(rows)[i] = rows[(n - i) + 1] /\ Reverse(t)[i] = t[(n - i) + 1]
  BY <1>1 DEF Reverse
<1> HIDE DEF n
<1>4. \A i \in 1..n : Reverse(rows)[i].obj = Reverse(t)[i].obj
  BY <1>1, <1>2, <1>3
<1> QED
  BY <1>1, <1>4 DEF Mirrors

LEMMA StillNobodySignsIn ==
  ASSUME AppInv, AppNext, NobodySignsIn
  PROVE  NobodySignsIn'
<1>1. left'["signIn"] = 0
  BY NoneLeft, ScreenLimits DEF NobodySignsIn
<1>2. left["signIn"] = 0 /\ \A r \in net : r.by # "signUp"
  BY DEF NobodySignsIn
<1> SUFFICES ASSUME NEW t \in net', t \notin net PROVE t.by # "signUp"
  BY <1>1, <1>2 DEF NobodySignsIn
<1>3. CASE AppLaunch
  BY <1>3, ChainSends DEF AppLaunch, Launch
<1>4. CASE AppChain
  <2>1. \/ \E q : postEditedPendingData(q) \/ postPendingUserNotes(q)
        \/ net' \subseteq net
    BY <1>4 DEF AppChain, LaunchStep, Notify, NotifyDeletes, NotifyEdits, NotifyPosts,
       LaunchRequestSucceeds, LaunchRequestFails, FetchSucceeds, FetchFails
  <2> QED
    BY <2>1, ChainSends
<1>5. CASE AppServer
  <2>0. PICK r \in net : \E id, rows : Answer(r, id, rows)
    BY <1>5 DEF AppServer, ServerStep, ServerAddsNote, ServerEditsNote, ServerDeletesNote,
       ServerListsNotes, ServerDeletesUser, ServerRegisters
  <2>1. PICK id, rows : Answer(r, id, rows)
    BY <2>0
  <2>2. r \in Request
    BY AppParts DEF NetOK
  <2>3. t = [r EXCEPT !.done = TRUE, !.id = id, !.rows = rows]
    BY <2>1 DEF Answer
  <2>4. t.by = r.by
    BY <2>2, <2>3 DEF Request
  <2> QED
    BY <1>2, <2>4
<1>6. CASE AppHome
  <2>1. \/ net' \subseteq net
        \/ \E who, idx, arg : net' = net \cup {NewRequest("home", who, idx, "delete", arg)}
    BY <1>6 DEF AppHome, HomeStep, HomeAppears, deleteItemAt, DeleteCancelled, DeleteRefused,
       DeleteConfirmed, checkInternet, DeleteAnswered, DeleteFails, deviceVars
  <2> QED
    BY <2>1 DEF NewRequest
<1>7. CASE AppWriting
  <2>1. \/ net' \subseteq net
        \/ \E w : reachabilityChanged(w)
    BY <1>7 DEF AppWriting, WritingStep, OpenWriting, closeBTNtapped, postBTNtapped, addNote,
       PostAnswered, PostGarbled, PostFails, deviceVars
  <2>2. ASSUME NEW w, reachabilityChanged(w) PROVE t.by = "writing"
    BY <2>2 DEF reachabilityChanged, NewRequest
  <2> QED
    BY <2>1, <2>2
<1>8. CASE AppEdit
  <2>1. \/ net' \subseteq net
        \/ \E arg : net' = net \cup {NewRequest("editing", 1, Fresh("editing"), "edit", arg)}
    BY <1>8 DEF AppEdit, EditStep, editItemAt, editCloseTapped, editPostTapped,
       editReachabilityChanged, EditDismissed, EditAnswered, deviceVars
  <2> QED
    BY <2>1 DEF NewRequest
<1>9. CASE AppSession
  <2>1. \A account : ~SignIn(account)
    BY <1>2 DEF SignIn, Spend, SpendAll
  <2>2. \A r : ~Registered(r)
    BY <1>2 DEF Registered, SignUpRequest
  <2>3. \/ net' \subseteq net
        \/ net' = net \cup {NewRequest("menu", 1, 1, "deleteUser", NoArg)}
    BY <1>9, <2>1, <2>2 DEF AppSession, SessionStep, SignUpBack, SignUpFetched, SignUpFails,
       AccountDeleted, AccountDeletionFails, handleLogout, deleteUserData, deviceVars
  <2> QED
    BY <2>3 DEF NewRequest
<1>10. CASE AppTraps \/ AppKilled \/ AppFlip
  BY <1>10 DEF AppTraps, AppKilled, AllEnds, ProcessEnds, AppFlip, NetworkChanges
<1> QED
  BY <1>3, <1>4, <1>5, <1>6, <1>7, <1>8, <1>9, <1>10 DEF AppNext

\* After a step the list has been reloaded, or the rows are the objects they
\* were.
LEMMA ListFollowsRows ==
  ASSUME AppInv, AppNext, NobodySignsIn, screen' # "off"
  PROVE  \/ SaveUserData(notes')
         \/ /\ SameObjects /\ notes' \in Seq(UserEntity)
            /\ SaveUserData(notes) \/ (userData' = userData /\ screen # "off")
<1> DEFINE Quiet == UNCHANGED <<notes, userData>> /\ screen # "off"
           Same  == SameObjects /\ notes' \in Seq(UserEntity)
           Unmoved == Same /\ (SaveUserData(notes) \/ (userData' = userData /\ screen # "off"))
<1>1. notes \in Seq(UserEntity) /\ running \in BOOLEAN
  BY AppParts DEF DeviceTypeOK
<1>2. Quiet => Unmoved
  BY <1>1 DEF SameObjects
<1>3. CASE AppLaunch
  BY <1>3 DEF AppLaunch, Launch, screenVars, homeVars, AppInv, NoProcess
<1>4. CASE AppChain
  <2>1. screen' = screen
    BY <1>4 DEF AppChain, screenVars, homeVars
  <2>2. CASE Notify
    <3>1. notes' = notes
      BY <2>2 DEF Notify, NotifyDeletes, NotifyEdits, NotifyPosts
    <3>2. userData' = userData \/ SaveUserData(notes)
      BY <2>2 DEF Notify, NotifyDeletes, NotifyEdits, NotifyPosts, postEditedPendingData,
         postPendingUserNotes, Drain
    <3> QED
      BY <1>1, <2>1, <3>1, <3>2 DEF SameObjects
  <2>3. ASSUME NEW r \in net, LaunchRequestSucceeds(r) PROVE Unmoved
    <3>1. Same
      BY <2>3, Stamping, AppParts DEF SameObjects
    <3>2. userData' = userData \/ SaveUserData(notes)
      BY <2>3 DEF LaunchRequestSucceeds
    <3> QED
      BY <2>1, <3>1, <3>2
  <2>4. ASSUME NEW r \in net, LaunchRequestFails(r) \/ FetchFails(r) PROVE Quiet
    BY <2>1, <2>4 DEF LaunchRequestFails, FetchFails, storeVars
  <2>5. ASSUME NEW r \in net, FetchSucceeds(r) PROVE Unmoved \/ SaveUserData(notes')
    <3>1. r.rows \in Seq(ServerNote)
      BY AppParts DEF NetOK, Request
    <3>2. CASE Len(r.rows) # Len(notes)
      BY <2>5, <3>2 DEF FetchSucceeds
    <3>3. CASE Len(r.rows) = Len(notes)
      <4>1. notes' = updateLocalNoteIDs(notes, r.rows) /\ userData' = userData
        BY <2>5, <3>3 DEF FetchSucceeds, syncLocalWithServer
      <4>2. Same
        BY <1>1, <3>1, <4>1, IdentifiedRows DEF SameObjects
      <4> QED
        BY <2>1, <4>1, <4>2
    <3> QED
      BY <3>2, <3>3
  <2> QED
    BY <1>2, <1>4, <2>2, <2>3, <2>4, <2>5 DEF AppChain, LaunchStep
<1>5. CASE AppServer
  <2>1. Quiet
    BY <1>5 DEF AppServer, ServerStep, ServerAddsNote, ServerEditsNote, ServerDeletesNote,
       ServerListsNotes, ServerDeletesUser, ServerRegisters, Answer, storeVars, screenVars,
       homeVars
  <2> QED
    BY <1>2, <2>1
<1>6. CASE AppHome
  <2>1. Quiet \/ SaveUserData(notes')
    <3>1. CASE HomeAppears
      BY <3>1 DEF HomeAppears, storeVars, SaveUserData
    <3>2. CASE DeleteConfirmed
      BY <3>2 DEF DeleteConfirmed
    <3>3. CASE HomeStep /\ ~HomeAppears /\ ~DeleteConfirmed
      BY <3>3 DEF HomeStep, deleteItemAt, Present, Touched, DeleteCancelled, CloseAlert,
         DeleteRefused, DeleteAnswered, DeleteFails, storeVars, deviceVars, homeVars
    <3> QED
      BY <1>6, <3>1, <3>2, <3>3 DEF AppHome
  <2> QED
    BY <1>2, <2>1
<1>7. CASE AppWriting
  <2>1. ASSUME NEW r \in net, PostAnswered(r) PROVE Unmoved
    BY <2>1, PostAnsweredKeepsObjects DEF PostAnswered, homeVars
  <2>2. ASSUME NEW w, addNote(w) PROVE SaveUserData(notes')
    BY <2>2 DEF addNote
  <2>3. ASSUME NEW w, closeBTNtapped(w) \/ postBTNtapped(w) \/ reachabilityChanged(w)
        PROVE  Quiet
    BY <2>3 DEF closeBTNtapped, postBTNtapped, reachabilityChanged, Touched, storeVars,
       deviceVars, homeVars
  <2>4. ASSUME NEW text, OpenWriting(text) PROVE Quiet
    BY <2>4 DEF OpenWriting, Present, Touched, storeVars
  <2>5. ASSUME NEW r, PostGarbled(r) \/ PostFails(r) PROVE Quiet
    BY <2>5 DEF PostGarbled, PostFails, storeVars, homeVars
  <2> QED
    BY <1>2, <1>7, <2>1, <2>2, <2>3, <2>4, <2>5 DEF AppWriting, WritingStep
<1>8. CASE AppEdit
  <2>1. CASE editPostTapped
    BY <2>1 DEF editPostTapped
  <2>2. CASE editReachabilityChanged
    <3>1. Same
      <4>1. CASE online
        BY <1>1, <2>2, <4>1 DEF editReachabilityChanged, SameObjects
      <4>2. CASE ~online
        <5>1. /\ editor.stage \in {"open", "closing"} /\ nextObj' = nextObj
              /\ notes' = editUserContext(notes, editor.obj, editor.text, NoteIDNow)
          BY <2>2, <4>2 DEF editReachabilityChanged
        <5>2. NoteIDNow \in Int
          BY <5>1, EditorIDs
        <5> QED
          BY <5>1, <5>2, EditKeepsObjects
      <4> QED
        BY <4>1, <4>2
    <3> QED
      BY <2>2, <3>1 DEF editReachabilityChanged, homeVars
  <2>3. ASSUME NEW row, NEW text, editItemAt(row, text) PROVE Quiet
    BY <2>3 DEF editItemAt, Present, Touched, storeVars
  <2>4. CASE editCloseTapped \/ EditDismissed
    BY <1>2, <2>4 DEF editCloseTapped, EditDismissed, BackHome, storeVars, deviceVars
  <2>5. ASSUME NEW r, EditAnswered(r) PROVE Quiet
    BY <2>5 DEF EditAnswered, storeVars, homeVars
  <2> QED
    BY <1>2, <1>8, <2>1, <2>2, <2>3, <2>4, <2>5 DEF AppEdit, EditStep
<1>9. CASE AppSession
  <2>1. left["signIn"] = 0 /\ \A r \in net : r.by # "signUp"
    BY DEF NobodySignsIn
  <2>2. \A account : ~SignIn(account)
    BY <2>1 DEF SignIn, Spend, SpendAll
  <2>3. \A r \in net : ~Registered(r) /\ ~SignUpFetched(r) /\ ~SignUpFails(r)
    BY <2>1 DEF Registered, SignUpFetched, SignUpFails, SignUpRequest
  <2>4. CASE SignUpBack \/ deleteUserData
    BY <1>2, <2>4 DEF SignUpBack, deleteUserData, Present, Touched, storeVars, deviceVars
  <2>5. CASE handleLogout
    BY <2>5 DEF handleLogout, EmptyThePhone
  <2>6. ASSUME NEW r, AccountDeleted(r) PROVE FALSE
    BY <2>6 DEF AccountDeleted, EmptyThePhone
  <2>7. ASSUME NEW r, AccountDeletionFails(r) PROVE Quiet
    BY <2>7 DEF AccountDeletionFails, BackHome, storeVars
  <2> QED
    BY <1>2, <1>9, <2>2, <2>3, <2>4, <2>5, <2>6, <2>7 DEF AppSession, SessionStep
<1>10. CASE AppTraps \/ AppKilled
  BY <1>10 DEF AppTraps, AppKilled, AllEnds, HomeEnds
<1>11. CASE AppFlip
  BY <1>2, <1>11 DEF AppFlip, NetworkChanges, storeVars, homeVars
<1> QED
  BY <1>3, <1>4, <1>5, <1>6, <1>7, <1>8, <1>9, <1>10, <1>11 DEF AppNext

\* As long as nobody signs in the list on screen is the rows', newest first,
\* whatever is written, edited, deleted, merged and stamped under it: a row is
\* edited or deleted by its position (HomeVC.reloadUsersData).
THEOREM ListIsTheRows == AppSpec /\ left["signIn"] = 0 => []ScreenListsRows
<1> DEFINE Inv == NobodySignsIn /\ ScreenListsRows
<1>1. AppInit /\ left["signIn"] = 0 => Inv
  BY DEF AppInit, Init, HomeInit, NobodySignsIn, ScreenListsRows
<1>2. ASSUME AppInv, AppNext, Inv PROVE Inv'
  <2>1. NobodySignsIn'
    BY <1>2, StillNobodySignsIn
  <2>2. ASSUME screen' # "off" PROVE Mirrors(userData', notes')
    <3>1. CASE SaveUserData(notes')
      BY <3>1 DEF SaveUserData, Mirrors
    <3>2. CASE /\ SameObjects /\ notes' \in Seq(UserEntity)
               /\ SaveUserData(notes) \/ (userData' = userData /\ screen # "off")
      <4>1. Mirrors(userData', notes)
        BY <1>2, <3>2 DEF ScreenListsRows, SaveUserData, Mirrors
      <4>2. notes \in Seq(UserEntity)
        BY <1>2, AppParts
      <4> QED
        BY <3>2, <4>1, <4>2, StillMirrors DEF SameObjects
    <3> QED
      BY <1>2, <2>2, <3>1, <3>2, ListFollowsRows
  <2> QED
    BY <2>1, <2>2 DEF ScreenListsRows, Mirrors
<1>3. ASSUME Inv, UNCHANGED appVars PROVE Inv'
  BY <1>3 DEF NobodySignsIn, ScreenListsRows, appVars, deviceVars, storeVars, screenVars, homeVars
<1>4. AppInv /\ Inv /\ [AppNext]_appVars => Inv'
  BY <1>2, <1>3
<1>5. Inv => ScreenListsRows
  OBVIOUS
<1> QED
  BY <1>1, <1>4, <1>5, AppInvariantHolds, PTL DEF AppSpec

=============================================================================
