---------------------------- MODULE MCNoteStore ----------------------------
(***************************************************************************)
(* The pure operators of NoteStore against what they stand for, over every *)
(* short array, set of offsets, list of rows and server answer.            *)
(***************************************************************************)
EXTENDS NoteStore

\* Enough texts for an answer to repeat one and to miss one.
ThreeTexts == CHOOSE T \in SUBSET Text : Cardinality(T) = 3

Upto(n, S) == UNION {[1..k -> S] : k \in 0..n}

\* Arrays hold their first positions, so that a misplaced element shows.
Arrays   == {[i \in 1..n |-> i] : n \in 0..5}
RowLists == {[i \in DOMAIN t |-> NewRow(i, t[i], i, Nil)] : t \in Upto(3, ThreeTexts)}
Answers  == {[i \in DOMAIN t |-> [id |-> 10 + i, text |-> t[i]]] : t \in Upto(3, ThreeTexts)}

Synced(rows, response) == syncLocalWithServer(rows, response, 100)
Texts(s) == {s[i].text : i \in DOMAIN s}
Distinct(s) == Cardinality(Texts(s)) = Len(s)

\* Constant.swift's loop: remove(at:) at every offset, the highest first.
OneByOne(s, I) ==
  FoldSeq(LAMBDA i, t : RemoveAt(t, i), s, SetToSortSeq(I, <))

---------------------------------------------------------------------------

\* The closed form the model uses is what the loop leaves of s.
RemovesAsTheLoop(s) ==
  \A I \in SUBSET DOMAIN s : removeAtOffsets(s, I) = OneByOne(s, I)

\* What merging an answer leaves has a row for each note of it.  When no text
\* repeats and both have the same texts, or the counts differ, every row has
\* the id of its text; a row that is kept keeps its text and its day, and two
\* rows get one id only when their texts are the same.
MergesByText(rows, response) ==
  LET new == Synced(rows, response)
  IN  /\ Len(new) = Len(response)
      /\ \/ Len(rows) # Len(response)
         \/ Distinct(rows) /\ Texts(rows) = Texts(response)
         => {[id |-> r.noteID, text |-> r.text] : r \in ToSet(new)} = ToSet(response)
      /\ Len(rows) = Len(response) =>
           /\ \A i \in DOMAIN rows : new[i].text = rows[i].text /\ new[i].day = rows[i].day
           /\ \A i, j \in DOMAIN rows :
                (new[i].noteID = new[j].noteID /\ new[i].noteID # Nil)
                  => rows[i].text = rows[j].text
=============================================================================
