------------------------------- MODULE Device -------------------------------
(***************************************************************************)
(* What the parts of the app share: the persistent store of one phone      *)
(* (Core Data rows and the three retry queues in UserDefaults), the        *)
(* signed-in account, the list HomeVC shows, the web service, and the HTTP *)
(* requests in flight between them (DatabaseHelper.swift).                 *)
(*                                                                         *)
(* All of the app's own code runs on the main queue, so a handler is one   *)
(* step.  A request is sent by a handler, carried out by the server in     *)
(* another step, and answered to a completion handler in a third; the      *)
(* completion may see a failure whether or not the server did the work.    *)
(***************************************************************************)
EXTENDS NoteStore

CONSTANTS Account,       \* the accounts that may sign in
          NoAccount,     \* UID = "" and IS_LOGIN = false
          Resource,      \* what the environment may do only so many times
          Limit          \* how many times: a function on Resource

ASSUME NoAccountAssumption == NoAccount \notin Account
ASSUME LimitAssumption ==
  /\ {"kill", "flip", "fail"} \subseteq Resource
  /\ Limit \in [Resource -> Nat]

VARIABLES
  notes,      \* persistent: the rows, in the order getUserContext returns them
  queue,      \* persistent: the retry queues, by kind
  uid,        \* persistent: the account signed in, or NoAccount
  server,     \* the web service: the notes of every account
  nextID,     \* the web service: the next note id
  nextObj,    \* the next managed object identity
  userData,   \* HomeVC.userData: the objects on screen, newest first
  net,        \* the requests in flight
  running,    \* is the app's process alive
  online,     \* is the network reachable
  overlay,    \* is Loader's view over the window, swallowing touches
  left        \* what is left of Limit

storeVars  == <<notes, queue, uid, nextObj>>
remoteVars == <<server, nextID>>
deviceVars == <<storeVars, remoteVars, userData, net, running, overlay, online, left>>

---------------------------------------------------------------------------
(* The entries of the retry queues (UserModel.swift).                      *)

Kind == {"delete", "edit", "post"}

PendingData       == [text : Text, day : Int]
EditPendingData   == [noteID : Int, text : Text]
DeletePendingData == [noteID : Int]
Entry == PendingData \cup EditPendingData \cup DeletePendingData

Queues == [delete : Seq(DeletePendingData),
           edit   : Seq(EditPendingData),
           post   : Seq(PendingData)]
NoQueues == [delete |-> <<>>, edit |-> <<>>, post |-> <<>>]

Enqueue(kind, entry) == queue' = [queue EXCEPT ![kind] = Append(@, entry)]

---------------------------------------------------------------------------
(* Requests.  by/who/idx identify the closure that waits for the answer.   *)

Caller == {"launch", "writing", "editing", "home", "signUp", "menu"}
Op     == Kind \cup {"fetch", "register", "deleteUser"}
NoArg  == [none |-> 0]

Request == [by : Caller, who : Nat, idx : Nat, op : Op,
            owner : Account \cup {NoAccount}, arg : Entry \cup {NoArg},
            done : BOOLEAN, id : Nat, rows : Seq(ServerNote)]

NewRequest(by, who, idx, op, arg) ==
  [by |-> by, who |-> who, idx |-> idx, op |-> op, owner |-> uid, arg |-> arg,
   done |-> FALSE, id |-> 0, rows |-> <<>>]

\* An idx no request of the caller uses.
Fresh(by) == 1 + Max({0} \cup {r.idx : r \in {q \in net : q.by = by}})

SpendAll(S) ==
  /\ \A what \in S : left[what] > 0
  /\ left' = [what \in Resource |-> IF what \in S THEN left[what] - 1 ELSE left[what]]

Spend(what) == SpendAll({what})

\* The answer of r reaches its completion handler.
Delivered(r) == r.done /\ online /\ UNCHANGED left

\* The completion handler of r is told of a failure: no network, or an
\* answer that is refused, lost or cannot be decoded.
Failed(r) == IF online THEN Spend("fail") ELSE UNCHANGED left

\* The process is gone, and with it every closure and every request.
ProcessEnds ==
  /\ running' = FALSE /\ net' = {} /\ userData' = <<>> /\ overlay' = FALSE
  /\ UNCHANGED <<storeVars, remoteVars, online>>

\* A change of the flags Reachability watches: the connection may go or come,
\* or be another one of the same kind.
NetworkChanges ==
  /\ Spend("flip")
  /\ online' \in BOOLEAN
  /\ UNCHANGED <<storeVars, remoteVars, userData, net, running, overlay>>

\* Loader.startAnimating finds a key window once the app has launched;
\* stopAnimating takes the view away whoever put it there.
StartLoader == overlay' = running
StopLoader  == overlay' = FALSE

\* NotificationCenter's .saveUserData reaches HomeVC.reloadUsersData while
\* the store holds rows.
SaveUserData(rows) == userData' = [i \in DOMAIN rows |-> Reverse(rows)[i].obj]

---------------------------------------------------------------------------
(* The web service (outside the repository): what the scripts behind       *)
(* DatabaseHelper's URLs do, as far as their callers rely on it.           *)

Answer(r, id, rows) ==
  /\ net' = (net \ {r}) \cup {[r EXCEPT !.done = TRUE, !.id = id, !.rows = rows]}
  /\ UNCHANGED <<storeVars, userData, running, overlay, online, left>>

Reaches(r, op) == online /\ ~r.done /\ r.op = op

ServerAddsNote(r) ==
  /\ Reaches(r, "post")
  /\ server' = [server EXCEPT ![r.owner] =
                  Append(@, [id |-> nextID, text |-> r.arg.text])]
  /\ nextID' = nextID + 1
  /\ Answer(r, nextID, <<>>)

ServerEditsNote(r) ==
  /\ Reaches(r, "edit")
  /\ server' = [a \in Account |-> [i \in DOMAIN server[a] |->
                  IF server[a][i].id = r.arg.noteID
                    THEN [server[a][i] EXCEPT !.text = r.arg.text]
                    ELSE server[a][i]]]
  /\ Answer(r, 0, <<>>) /\ UNCHANGED nextID

ServerDeletesNote(r) ==
  /\ Reaches(r, "delete")
  /\ server' = [a \in Account |->
                  LET k == SelectInSeq(server[a], LAMBDA n : n.id = r.arg.noteID)
                  IN  IF k = 0 THEN server[a] ELSE RemoveAt(server[a], k)]
  /\ Answer(r, 0, <<>>) /\ UNCHANGED nextID

ServerListsNotes(r) ==
  /\ Reaches(r, "fetch")
  /\ Answer(r, 0, IF r.owner \in Account THEN server[r.owner] ELSE <<>>)
  /\ UNCHANGED remoteVars

ServerDeletesUser(r) ==
  /\ Reaches(r, "deleteUser")
  /\ server' = [server EXCEPT ![r.owner] = <<>>]
  /\ Answer(r, 0, <<>>) /\ UNCHANGED nextID

ServerRegisters(r) ==
  /\ Reaches(r, "register")
  /\ Answer(r, 0, <<>>) /\ UNCHANGED remoteVars

ServerStep ==
  \E r \in net : \/ ServerAddsNote(r)
                 \/ ServerEditsNote(r)
                 \/ ServerDeletesNote(r)
                 \/ ServerListsNotes(r)
                 \/ ServerDeletesUser(r)
                 \/ ServerRegisters(r)

---------------------------------------------------------------------------

DeviceTypeOK ==
  /\ notes \in Seq(UserEntity)
  /\ queue \in Queues
  /\ uid \in Account \cup {NoAccount}
  /\ server \in [Account -> Seq(ServerNote)]
  /\ nextID \in Nat \ {0}
  /\ nextObj \in Nat \ {0}
  /\ userData \in Seq(Nat)
  /\ net \subseteq Request
  /\ running \in BOOLEAN /\ online \in BOOLEAN /\ overlay \in BOOLEAN
  /\ left \in [Resource -> Nat]
=============================================================================
