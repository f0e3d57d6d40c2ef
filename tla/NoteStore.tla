----------------------------- MODULE NoteStore -----------------------------
(***************************************************************************)
(* The notes a device keeps and the arithmetic on them: the rows of the    *)
(* Core Data entity UserEntity (DatabaseManager.swift), the offsets of the *)
(* retry queues (Constant.swift) and the merge of a server answer into the *)
(* rows (AppDelegate.syncLocalWithServer).  Everything here is a pure      *)
(* operator on sequences; the modules that EXTEND this one own the state.  *)
(*                                                                         *)
(* A row keeps what the program's decisions depend on: the identity of the *)
(* managed object, the text, the "day" string and the server's note id.    *)
(* date and time, which only order the list on screen, are left out.       *)
(***************************************************************************)
EXTENDS Integers, Sequences, FiniteSets, SequencesExt, FiniteSetsExt

CONSTANT Text            \* the texts a user may write

(***************************************************************************)
(* noteID is an optional string.  The server numbers its notes from 1.     *)
(***************************************************************************)
Nil   == -1              \* no id yet
Blank == 0               \* "" or "0", which no note on the server has

(***************************************************************************)
(* The "day" string is either a counter, "\(count + 1)", or the printed    *)
(* Optional "Optional(\"id\")" syncLocalWithServer stores.  The two never  *)
(* coincide: counters are positive numbers here, printed ids negative.     *)
(***************************************************************************)
CountedDay(rows) == Len(rows) + 1
PrintedDay(id)   == 0 - id

UserEntity == [obj : Nat, text : Text, day : Int, noteID : Int]
ServerNote == [id : Nat, text : Text]

NewRow(obj, text, day, noteID) ==
  [obj |-> obj, text |-> text, day |-> day, noteID |-> noteID]

---------------------------------------------------------------------------
(* DatabaseManager: every operation saves the context before it returns.   *)

addUserContext(rows, row) == Append(rows, row)

IndexOf(rows, obj) == SelectInSeq(rows, LAMBDA r : r.obj = obj)

\* Mutant: only the id is written.
editIDOnly(rows, obj, text, noteID) ==
  [i \in DOMAIN rows |->
     IF rows[i].obj = obj THEN [rows[i] EXCEPT !.noteID = noteID] ELSE rows[i]]

\* editUserContext writes the fields of one managed object; an object that
\* is no longer in the store changes nothing.
editUserContext(rows, obj, text, noteID) ==
  [i \in DOMAIN rows |->
     IF rows[i].obj = obj
       THEN [rows[i] EXCEPT !.text = text, !.noteID = noteID]
       ELSE rows[i]]

deleteUserContext(rows, obj) ==
  LET i == IndexOf(rows, obj) IN IF i = 0 THEN rows ELSE RemoveAt(rows, i)

\* getUserContext(forDay:).first: the index of the oldest row with that day, or 0
getUserContextForDay(rows, day) == SelectInSeq(rows, LAMBDA r : r.day = day)

---------------------------------------------------------------------------
(* Array.remove(atOffsets:) on a retry queue.                              *)

\* The k-th smallest member of a finite set of naturals.
Nth(S, k) == CHOOSE i \in S : Cardinality({j \in S : j <= i}) = k

\* Mutant: the offsets are removed lowest first, and shift those to come.
removeAscending(s, I) ==
  FoldSeq(LAMBDA i, t : IF i > Len(t) THEN t ELSE RemoveAt(t, i), s, SetToSortSeq(I, >))

\* Removing the offsets I from s leaves the other elements in their order.
removeAtOffsets(s, I) ==
  LET kept == DOMAIN s \ I
  IN  [k \in 1..Cardinality(kept) |-> s[Nth(kept, k)]]

---------------------------------------------------------------------------
(* AppDelegate.syncLocalWithServer and updateLocalNoteIDs.                 *)

\* Rows built from a server answer; first is the first free object number.
ResponseRows(response, first) ==
  [i \in DOMAIN response |->
     NewRow(first + i - 1, response[i].text, PrintedDay(response[i].id),
            response[i].id)]

\* Mutant: rows and answers are matched by their position.
updateByPosition(rows, response) ==
  [i \in DOMAIN rows |-> [rows[i] EXCEPT !.noteID = response[i].id,
                                          !.text   = response[i].text]]

\* Each row takes the id of the first answer with the same text.
updateLocalNoteIDs(rows, response) ==
  [i \in DOMAIN rows |->
     LET k == SelectInSeq(response, LAMBDA d : d.text = rows[i].text)
     IN  IF k = 0 THEN rows[i]
                  ELSE [rows[i] EXCEPT !.noteID = response[k].id]]

\* Mutant: the second half of the comparison of the counts is missing.
syncWhenServerHasMore(rows, response, first) ==
  IF Len(response) > Len(rows)
    THEN ResponseRows(response, first)
    ELSE updateLocalNoteIDs(rows, response)

syncLocalWithServer(rows, response, first) ==
  IF Len(response) # Len(rows)
    THEN ResponseRows(response, first)
    ELSE updateLocalNoteIDs(rows, response)
=============================================================================
