-------------------------- MODULE LaunchSyncProofs --------------------------
(***************************************************************************)
(* What holds of the launch synchronisation on every phone: any accounts,  *)
(* texts, queues and rows, any number of kills, changes of the connection  *)
(* and failed requests.  It begins with facts about the operators on rows  *)
(* and arrays the steps are built from, for every text, every array and    *)
(* every set of offsets.                                                   *)
(***************************************************************************)
EXTENDS LaunchSync, MCNoteStore, TLAPS, FiniteSetTheorems, SequenceTheorems

---------------------------------------------------------------------------
(* The operators of NoteStore: what Array.remove(atOffsets:) leaves, and   *)
(* that the operators on rows return rows.                                 *)

\* A non-empty set of naturals has a least element, the one Min chooses.
LEMMA MinIsMember ==
  ASSUME NEW T \in SUBSET Nat, T # {}
  PROVE  /\ Min(T) \in T
         /\ \A y \in T : Min(T) <= y
<1>1. \E x \in T : \A y \in T : ~ (<<y, x>> \in OpToRel(<, Nat))
  BY NatLessThanWellFounded, WFMin
<1>2. PICK x \in T : \A y \in T : ~ (y < x)
  BY <1>1 DEF OpToRel
<1>3. \A y \in T : x <= y
  BY <1>2
<1> QED
  BY <1>3 DEF Min

\* The domain of a sequence is finite, and so is every part of it.
LEMMA FinitePart ==
  ASSUME NEW S, NEW s \in Seq(S), NEW K \in SUBSET (DOMAIN s)
  PROVE  /\ IsFiniteSet(K)
         /\ K \subseteq Nat
         /\ Cardinality(K) \in Nat
<1>1. DOMAIN s = 1..Len(s) /\ Len(s) \in Nat
  BY LenProperties
<1>2. IsFiniteSet(1..Len(s))
  BY <1>1, FS_Interval
<1> QED
  BY <1>1, <1>2, FS_Subset, FS_CardinalityType

\* The rank of i in K: how many members of K are at most i.
Rank(K, i) == Cardinality({j \in K : j <= i})

\* A larger member has a larger rank.
LEMMA RankGrows ==
  ASSUME NEW K \in SUBSET Nat, IsFiniteSet(K),
         NEW i \in K, NEW j \in K, i < j
  PROVE  Rank(K, i) < Rank(K, j)
<1> DEFINE A == {x \in K : x <= i}
           B == {x \in K : x <= j}
<1>1. IsFiniteSet(A) /\ IsFiniteSet(B)
  BY FS_Subset
<1>2. A \subseteq B
  <2>1. i \in Nat /\ j \in Nat /\ \A x \in K : x \in Nat
    OBVIOUS
  <2>2. \A x \in K : x <= i => x <= j
    BY <2>1
  <2> QED
    BY <2>2
<1>3. j \in B /\ j \notin A
  OBVIOUS
<1>4. Cardinality(A) <= Cardinality(B) /\ Cardinality(A) # Cardinality(B)
  BY <1>1, <1>2, <1>3, FS_Subset
<1>5. Cardinality(A) \in Nat /\ Cardinality(B) \in Nat
  BY <1>1, FS_CardinalityType
<1> QED
  BY <1>4, <1>5 DEF Rank

\* Every position from 1 to the size of K is the rank of a member of K.
LEMMA NthIsMember ==
  ASSUME NEW K \in SUBSET Nat, IsFiniteSet(K),
         NEW k \in 1..Cardinality(K)
  PROVE  /\ Nth(K, k) \in K
         /\ Rank(K, Nth(K, k)) = k
<1> DEFINE n    == Cardinality(K)
           rank == [i \in K |-> Rank(K, i)]
<1>1. n \in Nat
  BY FS_CardinalityType
<1>2. ASSUME NEW i \in K PROVE Rank(K, i) \in 1..n
  <2> DEFINE A == {j \in K : j <= i}
  <2>1. i \in A /\ A \in SUBSET K
    OBVIOUS
  <2>2. IsFiniteSet(A) /\ Cardinality(A) <= n
    BY <2>1, FS_Subset
  <2>3. Cardinality(A) \in Nat /\ Cardinality(A) # 0
    BY <2>1, <2>2, FS_CardinalityType, FS_EmptySet
  <2> QED
    BY <1>1, <2>2, <2>3 DEF Rank
<1>3. rank \in [K -> 1..n]
  BY <1>2
<1>4. ASSUME NEW i \in K, NEW j \in K, rank[i] = rank[j] PROVE i = j
  <2>1. Rank(K, i) = Rank(K, j) /\ Rank(K, i) \in Nat
    BY <1>2, <1>4
  <2>2. ~ (i < j) /\ ~ (j < i)
    BY <2>1, RankGrows
  <2> QED
    BY <2>2
<1>5. rank \in Injection(K, 1..n)
  BY <1>3, <1>4 DEF Injection, IsInjective
<1>6. IsFiniteSet(1..n) /\ Cardinality(1..n) = n
  BY <1>1, FS_Interval
<1>7. rank \in Surjection(K, 1..n)
  BY <1>5, <1>6, FS_Injection
<1>8. PICK i \in K : rank[i] = k
  BY <1>7 DEF Surjection
<1>9. \E m \in K : Cardinality({j \in K : j <= m}) = k
  BY <1>8 DEF Rank
<1> QED
  BY <1>9 DEF Nth, Rank

\* A member of a finite set is the one at its rank.
LEMMA NthOfRank ==
  ASSUME NEW K \in SUBSET Nat, IsFiniteSet(K), NEW n \in K
  PROVE  /\ Rank(K, n) \in 1..Cardinality(K)
         /\ Nth(K, Rank(K, n)) = n
<1> DEFINE A == {j \in K : j <= n}
           c == Cardinality(K)
<1>1. c \in Nat
  BY FS_CardinalityType
<1>2. n \in A /\ A \in SUBSET K
  OBVIOUS
<1>3. IsFiniteSet(A) /\ Cardinality(A) <= c
  BY <1>2, FS_Subset
<1>4. Cardinality(A) \in Nat /\ Cardinality(A) # 0
  BY <1>2, <1>3, FS_CardinalityType, FS_EmptySet
<1>5. Rank(K, n) \in 1..c
  BY <1>1, <1>3, <1>4 DEF Rank
<1> DEFINE m == Nth(K, Rank(K, n))
<1>6. m \in K /\ Rank(K, m) = Rank(K, n) /\ Rank(K, n) \in Nat
  BY <1>1, <1>5, NthIsMember
<1> HIDE DEF m
<1>7. m \in Nat /\ n \in Nat /\ ~ (m < n) /\ ~ (n < m)
  BY <1>6, RankGrows
<1> QED
  BY <1>5, <1>7 DEF m

\* The offsets that stay when the offsets I are removed from s.
Kept(s, I) == DOMAIN s \ I

LEMMA KeptIsFinite ==
  ASSUME NEW S, NEW s \in Seq(S), NEW I
  PROVE  /\ Kept(s, I) \in SUBSET (DOMAIN s) /\ Kept(s, I) \in SUBSET Nat
         /\ IsFiniteSet(Kept(s, I)) /\ Cardinality(Kept(s, I)) \in Nat
<1>1. Kept(s, I) \in SUBSET (DOMAIN s)
  BY DEF Kept
<1> QED
  BY <1>1, FinitePart

\* What remove(atOffsets:) leaves is an array of the same elements, one for
\* every offset kept (Constant.swift, the three notify blocks).
THEOREM RemovalIsArray ==
  ASSUME NEW S, NEW s \in Seq(S), NEW I, NEW t, t = removeAtOffsets(s, I)
  PROVE  /\ t \in Seq(S)
         /\ Len(t) = Cardinality(Kept(s, I))
         /\ DOMAIN t = 1..Len(t)
         /\ \A k \in 1..Len(t) : Nth(Kept(s, I), k) \in Kept(s, I)
         /\ \A k \in 1..Len(t) : t[k] = s[Nth(Kept(s, I), k)]
<1> DEFINE kept == Kept(s, I)
           n    == Cardinality(kept)
<1>1. IsFiniteSet(kept) /\ kept \in SUBSET Nat /\ kept \in SUBSET (DOMAIN s) /\ n \in Nat
  BY KeptIsFinite
<1>2. \A k \in 1..n : Nth(kept, k) \in kept
  BY <1>1, NthIsMember
<1>3. \A k \in 1..n : s[Nth(kept, k)] \in S
  BY <1>1, <1>2, LenProperties
<1>4. t = [k \in 1..n |-> s[Nth(kept, k)]]
  BY DEF removeAtOffsets, Kept
<1>5. t \in [1..n -> S] /\ \A k \in 1..n : t[k] = s[Nth(kept, k)]
  BY <1>3, <1>4
<1> HIDE DEF n
<1>6. t \in Seq(S) /\ Len(t) = n /\ DOMAIN t = 1..n
  BY <1>1, <1>5
<1> QED
  BY <1>2, <1>5, <1>6 DEF n

\* Every element kept is among them.
LEMMA KeptIsLeft ==
  ASSUME NEW S, NEW s \in Seq(S), NEW I, NEW i \in Kept(s, I)
  PROVE  \E k \in DOMAIN removeAtOffsets(s, I) : removeAtOffsets(s, I)[k] = s[i]
<1> DEFINE K == Kept(s, I)
           t == removeAtOffsets(s, I)
<1>1. K \in SUBSET Nat /\ IsFiniteSet(K)
  BY KeptIsFinite
<1>2. /\ Len(t) = Cardinality(K) /\ DOMAIN t = 1..Len(t)
      /\ \A k \in 1..Len(t) : t[k] = s[Nth(K, k)]
  BY RemovalIsArray
<1>3. Rank(K, i) \in 1..Cardinality(K) /\ Nth(K, Rank(K, i)) = i
  BY <1>1, NthOfRank
<1> HIDE DEF K, t
<1>4. Rank(K, i) \in DOMAIN t /\ t[Rank(K, i)] = s[i]
  BY <1>2, <1>3
<1> QED
  BY <1>4 DEF t

\* The elements it leaves keep their order.
THEOREM RemovalKeepsOrder ==
  ASSUME NEW S, NEW s \in Seq(S), NEW I,
         NEW k \in 1..Cardinality(Kept(s, I)),
         NEW m \in 1..Cardinality(Kept(s, I)), k < m
  PROVE  Nth(Kept(s, I), k) < Nth(Kept(s, I), m)
<1> DEFINE kept == Kept(s, I)
           i    == Nth(kept, k)
           j    == Nth(kept, m)
<1>1. IsFiniteSet(kept) /\ kept \in SUBSET Nat
  BY KeptIsFinite
<1>2. i \in kept /\ j \in kept /\ Rank(kept, i) = k /\ Rank(kept, j) = m
  BY <1>1, NthIsMember
<1>3. ~ (j < i) /\ i # j
  BY <1>1, <1>2, RankGrows
<1> QED
  BY <1>1, <1>2, <1>3

---------------------------------------------------------------------------
(* The operators on rows.                                                  *)

\* A search returns 0 or the position of a row it was looking for.
LEMMA RowOfDay ==
  ASSUME NEW rows \in Seq(UserEntity), NEW day,
         getUserContextForDay(rows, day) # 0
  PROVE  /\ getUserContextForDay(rows, day) \in DOMAIN rows
         /\ rows[getUserContextForDay(rows, day)].day = day
<1> DEFINE I == {i \in 1..Len(rows) : rows[i].day = day}
<1>1. getUserContextForDay(rows, day) = IF I # {} THEN Min(I) ELSE 0
  BY DEF getUserContextForDay, SelectInSeq
<1>2. I # {} /\ getUserContextForDay(rows, day) = Min(I)
  BY <1>1
<1>3. I \in SUBSET Nat
  OBVIOUS
<1>4. Min(I) \in I
  BY <1>2, <1>3, MinIsMember
<1>5. DOMAIN rows = 1..Len(rows)
  BY LenProperties
<1> QED
  BY <1>2, <1>4, <1>5

\* Writing a row's text and id changes rows into rows, and touches nothing
\* else (DatabaseManager.editUserContext).
LEMMA EditedRows ==
  ASSUME NEW rows \in Seq(UserEntity), NEW obj, NEW text \in Text, NEW noteID \in Int,
         NEW t, t = editUserContext(rows, obj, text, noteID)
  PROVE  /\ t \in Seq(UserEntity)
         /\ Len(t) = Len(rows)
         /\ DOMAIN t = DOMAIN rows
         /\ \A i \in DOMAIN rows : /\ t[i].obj = rows[i].obj
                                   /\ rows[i].obj # obj => t[i] = rows[i]
                                   /\ rows[i].obj = obj => t[i].text = text
<1> DEFINE n == Len(rows)
           row(i) == IF rows[i].obj = obj
                       THEN [rows[i] EXCEPT !.text = text, !.noteID = noteID]
                       ELSE rows[i]
<1>1. n \in Nat /\ DOMAIN rows = 1..n /\ \A i \in 1..n : rows[i] \in UserEntity
  BY LenProperties
<1>2. \A i \in 1..n : row(i) \in UserEntity
  BY <1>1 DEF UserEntity
<1>3. t = [i \in 1..n |-> row(i)]
  BY <1>1 DEF editUserContext
<1>4. t \in [1..n -> UserEntity]
  BY <1>2, <1>3
<1>5. \A i \in 1..n : /\ row(i).obj = rows[i].obj
                      /\ rows[i].obj # obj => row(i) = rows[i]
                      /\ rows[i].obj = obj => row(i).text = text
  BY <1>1 DEF UserEntity
<1>6. \A i \in 1..n : t[i] = row(i)
  BY <1>3
<1>7. t \in Seq(UserEntity) /\ Len(t) = n /\ DOMAIN t = 1..n
  <2> HIDE DEF n
  <2> QED
    BY <1>1, <1>4
<1>8. \A i \in 1..n : /\ t[i].obj = rows[i].obj
                      /\ rows[i].obj # obj => t[i] = rows[i]
                      /\ rows[i].obj = obj => t[i].text = text
  <2> HIDE DEF row, n
  <2> QED
    BY <1>5, <1>6
<1> QED
  BY <1>1, <1>7, <1>8

\* The rows built from an answer, each with an object of its own.
LEMMA ResponseRowsAreRows ==
  ASSUME NEW response \in Seq(ServerNote), NEW first \in Nat,
         NEW t, t = ResponseRows(response, first)
  PROVE  /\ t \in Seq(UserEntity)
         /\ Len(t) = Len(response)
         /\ \A i \in DOMAIN t : t[i].obj = first + i - 1
<1> DEFINE n == Len(response)
           row(i) == NewRow(first + i - 1, response[i].text,
                            PrintedDay(response[i].id), response[i].id)
<1>1. /\ n \in Nat /\ DOMAIN response = 1..n
      /\ \A i \in 1..n : response[i].id \in Nat /\ response[i].text \in Text
  <2>1. n \in Nat /\ DOMAIN response = 1..n /\ \A i \in 1..n : response[i] \in ServerNote
    BY LenProperties
  <2> QED
    BY <2>1 DEF ServerNote
<1>2. \A i \in 1..n : row(i) \in UserEntity /\ row(i).obj = first + i - 1
  BY <1>1 DEF NewRow, UserEntity, PrintedDay
<1>3. t = [i \in 1..n |-> row(i)]
  BY <1>1 DEF ResponseRows
<1>4. t \in [1..n -> UserEntity] /\ \A i \in 1..n : t[i] = row(i)
  BY <1>2, <1>3
<1>5. t \in Seq(UserEntity) /\ Len(t) = n /\ DOMAIN t = 1..n
  <2> HIDE DEF n
  <2> QED
    BY <1>1, <1>4
<1> QED
  BY <1>2, <1>4, <1>5

\* Taking ids from an answer keeps every row, its object and its text.
LEMMA IdentifiedRows ==
  ASSUME NEW rows \in Seq(UserEntity), NEW response \in Seq(ServerNote),
         NEW t, t = updateLocalNoteIDs(rows, response)
  PROVE  /\ t \in Seq(UserEntity)
         /\ Len(t) = Len(rows)
         /\ DOMAIN t = DOMAIN rows
         /\ \A i \in DOMAIN rows : /\ t[i].obj = rows[i].obj
                                   /\ t[i].text = rows[i].text
<1> DEFINE n == Len(rows)
           hit(i) == {k \in 1..Len(response) : response[k].text = rows[i].text}
           k(i) == SelectInSeq(response, LAMBDA d : d.text = rows[i].text)
           row(i) == IF k(i) = 0 THEN rows[i]
                     ELSE [rows[i] EXCEPT !.noteID = response[k(i)].id]
<1>1. n \in Nat /\ DOMAIN rows = 1..n /\ \A i \in 1..n : rows[i] \in UserEntity
  BY LenProperties
<1>2. \A m \in 1..Len(response) : response[m].id \in Nat
  <2>1. \A m \in 1..Len(response) : response[m] \in ServerNote
    BY LenProperties
  <2> QED
    BY <2>1 DEF ServerNote
<1>3. ASSUME NEW i \in 1..n PROVE k(i) = 0 \/ k(i) \in 1..Len(response)
  <2>1. k(i) = IF hit(i) # {} THEN Min(hit(i)) ELSE 0
    BY DEF SelectInSeq
  <2>2. hit(i) \in SUBSET Nat
    OBVIOUS
  <2>3. hit(i) # {} => Min(hit(i)) \in hit(i)
    BY <2>2, MinIsMember
  <2> QED
    BY <2>1, <2>3
<1>4. \A i \in 1..n : /\ row(i) \in UserEntity
                      /\ row(i).obj = rows[i].obj /\ row(i).text = rows[i].text
  <2>1. \A x \in UserEntity, id \in Int :
          LET y == [x EXCEPT !.noteID = id]
          IN  y \in UserEntity /\ y.obj = x.obj /\ y.text = x.text
    BY DEF UserEntity
  <2> TAKE i \in 1..n
  <2>2. CASE k(i) = 0
    BY <1>1, <2>2
  <2>3. CASE k(i) # 0
    <3> HIDE DEF k, hit
    <3>1. response[k(i)].id \in Int
      BY <1>2, <1>3, <2>3
    <3> QED
      BY <1>1, <2>1, <2>3, <3>1
  <2> QED
    BY <2>2, <2>3
<1>5. t = [i \in 1..n |-> row(i)]
  BY <1>1 DEF updateLocalNoteIDs
<1>6. t \in [1..n -> UserEntity] /\ \A i \in 1..n : t[i] = row(i)
  BY <1>4, <1>5
<1>7. t \in Seq(UserEntity) /\ Len(t) = n /\ DOMAIN t = 1..n
  <2> HIDE DEF n
  <2> QED
    BY <1>1, <1>6
<1> QED
  BY <1>1, <1>4, <1>6, <1>7

\* An array as long as the set of its texts repeats none.
LEMMA TextsApart ==
  ASSUME NEW s, NEW n \in Nat, DOMAIN s = 1..n, Cardinality(Texts(s)) = n
  PROVE  \A i, j \in DOMAIN s : s[i].text = s[j].text => i = j
<1> DEFINE f == [i \in 1..n |-> s[i].text]
<1>1. IsFiniteSet(1..n) /\ Cardinality(1..n) = n
  BY FS_Interval
<1>2. f \in Surjection(1..n, Texts(s))
  BY DEF Surjection, Texts
<1>3. f \in Injection(1..n, Texts(s))
  BY <1>1, <1>2, FS_SurjSameCardinalityImpliesInj
<1> QED
  BY <1>3 DEF Injection, IsInjective

\* A row takes its id from an answer with its text, if there is one; nothing
\* else of it changes.
LEMMA IdOfItsText ==
  ASSUME NEW rows \in Seq(UserEntity), NEW response \in Seq(ServerNote), NEW i \in DOMAIN rows,
         NEW t, t = updateLocalNoteIDs(rows, response)
  PROVE  /\ DOMAIN t = DOMAIN rows
         /\ t[i].text = rows[i].text /\ t[i].day = rows[i].day
         /\ \/ /\ rows[i].text \notin Texts(response)
               /\ t[i].noteID = rows[i].noteID
            \/ \E k \in DOMAIN response : /\ response[k].text = rows[i].text
                                          /\ t[i].noteID = response[k].id
<1> DEFINE hit == {k \in 1..Len(response) : response[k].text = rows[i].text}
           k == SelectInSeq(response, LAMBDA m : m.text = rows[i].text)
<1>1. rows[i] \in UserEntity /\ DOMAIN response = 1..Len(response) /\ Len(response) \in Nat
  BY LenProperties
<1>2. DOMAIN t = DOMAIN rows
      /\ t[i] = IF k = 0 THEN rows[i] ELSE [rows[i] EXCEPT !.noteID = response[k].id]
  BY DEF updateLocalNoteIDs
<1>3. k = IF hit # {} THEN Min(hit) ELSE 0
  BY DEF SelectInSeq
<1>4. hit \in SUBSET Nat /\ 0 \notin hit
  BY <1>1
<1>5. CASE hit = {}
  <2>1. rows[i].text \notin Texts(response)
    BY <1>1, <1>5 DEF Texts
  <2>2. k = 0
    BY <1>3, <1>5
  <2> HIDE DEF k
  <2> QED
    BY <1>2, <2>1, <2>2
<1>6. CASE hit # {}
  <2>1. k \in hit /\ k # 0
    BY <1>3, <1>4, <1>6, MinIsMember
  <2>2. k \in DOMAIN response /\ response[k].text = rows[i].text
    BY <1>1, <2>1
  <2> HIDE DEF k, hit
  <2>3. \A m, y : \A x \in UserEntity : y = [x EXCEPT !.noteID = m]
           => y.text = x.text /\ y.day = x.day /\ y.noteID = m
    BY DEF UserEntity
  <2>4. t[i] = [rows[i] EXCEPT !.noteID = response[k].id]
    BY <1>2, <2>1
  <2>5. t[i].text = rows[i].text /\ t[i].day = rows[i].day /\ t[i].noteID = response[k].id
    BY <1>1, <2>3, <2>4
  <2> QED
    BY <1>2, <2>2, <2>5
<1> QED
  BY <1>5, <1>6

\* The answer numbers its notes apart, and a row whose text it lacks has no id
\* yet, or one no other row and no note of the answer has.
IDsApart(rows, response) ==
  /\ \A i, j \in DOMAIN response : response[i].id = response[j].id => i = j
  /\ \A i \in DOMAIN rows :
       rows[i].text \notin Texts(response) =>
         \/ rows[i].noteID = Nil
         \/ /\ \A j \in DOMAIN response : response[j].id # rows[i].noteID
            /\ \A j \in DOMAIN rows : rows[j].noteID = rows[i].noteID => j = i

\* Merging goes by the text for any rows and any answer with these ids: the
\* lists agree afterwards where they had the same texts or different lengths, a
\* row that is kept keeps its text, and rows that share an id share their text
\* (AppDelegate.syncLocalWithServer and updateLocalNoteIDs).
THEOREM MergingGoesByText ==
  ASSUME NEW rows \in Seq(UserEntity), NEW response \in Seq(ServerNote),
         IDsApart(rows, response)
  PROVE  MergesByText(rows, response)
<1> DEFINE new == Synced(rows, response)
           n == Len(rows)
           t == updateLocalNoteIDs(rows, response)
<1>0. /\ n \in Nat /\ DOMAIN rows = 1..n
      /\ Len(response) \in Nat /\ DOMAIN response = 1..Len(response)
      /\ \A i \in DOMAIN response : response[i] \in ServerNote
  BY LenProperties
<1>1. CASE n # Len(response)
  <2>1. new = ResponseRows(response, 100)
    BY <1>1 DEF Synced, syncLocalWithServer
  <2>2. /\ DOMAIN new = DOMAIN response
        /\ \A i \in DOMAIN response : new[i].noteID = response[i].id /\ new[i].text = response[i].text
    BY <2>1 DEF ResponseRows, NewRow
  <2>3. Len(new) = Len(response)
    BY <2>1, ResponseRowsAreRows
  <2> HIDE DEF new
  <2>4. {[id |-> r.noteID, text |-> r.text] : r \in ToSet(new)} = ToSet(response)
    <3>1. \A i \in DOMAIN response : [id |-> new[i].noteID, text |-> new[i].text] = response[i]
      BY <1>0, <2>2 DEF ServerNote
    <3> QED
      BY <2>2, <3>1 DEF ToSet
  <2> QED
    BY <1>1, <2>3, <2>4 DEF MergesByText, new
<1>2. CASE n = Len(response)
  <2>1. new = t
    BY <1>2 DEF Synced, syncLocalWithServer
  <2>2. Len(t) = n /\ DOMAIN t = DOMAIN rows
    BY IdentifiedRows
  <2>3. \A i \in DOMAIN rows :
          /\ t[i].text = rows[i].text /\ t[i].day = rows[i].day
          /\ \/ /\ rows[i].text \notin Texts(response)
                /\ t[i].noteID = rows[i].noteID
             \/ \E k \in DOMAIN response : /\ response[k].text = rows[i].text
                                           /\ t[i].noteID = response[k].id
    BY IdOfItsText
  <2> HIDE DEF t, n
  <2>4. ASSUME NEW i \in DOMAIN rows, NEW j \in DOMAIN rows,
               t[i].noteID = t[j].noteID, t[i].noteID # Nil
        PROVE  rows[i].text = rows[j].text
    <3>1. CASE rows[i].text \notin Texts(response)
      BY <2>3, <2>4, <3>1 DEF IDsApart, Texts
    <3>2. CASE rows[j].text \notin Texts(response)
      BY <2>3, <2>4, <3>2 DEF IDsApart, Texts
    <3>3. CASE rows[i].text \in Texts(response) /\ rows[j].text \in Texts(response)
      <4>1. PICK k \in DOMAIN response : response[k].text = rows[i].text /\ t[i].noteID = response[k].id
        BY <2>3, <3>3
      <4>2. PICK m \in DOMAIN response : response[m].text = rows[j].text /\ t[j].noteID = response[m].id
        BY <2>3, <3>3
      <4>3. k = m
        BY <2>4, <4>1, <4>2 DEF IDsApart
      <4> QED
        BY <4>1, <4>2, <4>3
    <3> QED
      BY <3>1, <3>2, <3>3
  <2>5. ASSUME Distinct(rows), Texts(rows) = Texts(response)
        PROVE  {[id |-> r.noteID, text |-> r.text] : r \in ToSet(t)} = ToSet(response)
    <3>1. \A k, m \in DOMAIN response : response[k].text = response[m].text => k = m
      <4>1. Cardinality(Texts(response)) = Len(response)
        BY <1>2, <2>5 DEF Distinct, n
      <4> QED
        BY <1>0, <4>1, TextsApart
    <3>2. ASSUME NEW i \in DOMAIN rows
          PROVE  \E k \in DOMAIN response : [id |-> t[i].noteID, text |-> t[i].text] = response[k]
      <4>1. rows[i].text \in Texts(response)
        BY <2>5 DEF Texts
      <4>2. PICK k \in DOMAIN response : /\ response[k].text = rows[i].text
                                         /\ t[i].noteID = response[k].id
        BY <2>3, <4>1
      <4>3. [id |-> t[i].noteID, text |-> t[i].text] = response[k]
        BY <1>0, <2>3, <4>2 DEF ServerNote
      <4> QED
        BY <4>3
    <3>3. ASSUME NEW k \in DOMAIN response
          PROVE  \E i \in DOMAIN rows : [id |-> t[i].noteID, text |-> t[i].text] = response[k]
      <4>1. PICK i \in DOMAIN rows : rows[i].text = response[k].text
        <5>1. response[k].text \in Texts(rows)
          BY <2>5 DEF Texts
        <5> QED
          BY <5>1 DEF Texts
      <4>2. PICK m \in DOMAIN response : [id |-> t[i].noteID, text |-> t[i].text] = response[m]
        BY <3>2
      <4>3. response[m].text = response[k].text
        <5>1. response[m].text = t[i].text
          BY <4>2
        <5> QED
          BY <2>3, <4>1, <5>1
      <4> QED
        BY <3>1, <4>2, <4>3
    <3> DEFINE pair(r) == [id |-> r.noteID, text |-> r.text]
    <3>4. ToSet(t) = {t[i] : i \in DOMAIN rows} /\ ToSet(response) = {response[k] : k \in DOMAIN response}
      BY <2>2 DEF ToSet
    <3>5. /\ \A i \in DOMAIN rows : \E k \in DOMAIN response : pair(t[i]) = response[k]
          /\ \A k \in DOMAIN response : \E i \in DOMAIN rows : pair(t[i]) = response[k]
      BY <3>2, <3>3
    <3> HIDE DEF pair
    <3>6. {pair(r) : r \in ToSet(t)} = ToSet(response)
      <4>1. ASSUME NEW r \in ToSet(t) PROVE pair(r) \in ToSet(response)
        <5>1. PICK i \in DOMAIN rows : r = t[i]
          BY <3>4
        <5>2. PICK k \in DOMAIN response : pair(t[i]) = response[k]
          BY <3>5
        <5> QED
          BY <3>4, <5>1, <5>2
      <4>2. ASSUME NEW m \in ToSet(response) PROVE \E r \in ToSet(t) : pair(r) = m
        <5>1. PICK k \in DOMAIN response : m = response[k]
          BY <3>4
        <5>2. PICK i \in DOMAIN rows : pair(t[i]) = response[k]
          BY <3>5
        <5>3. t[i] \in ToSet(t)
          BY <3>4
        <5> QED
          BY <5>1, <5>2, <5>3
      <4> QED
        BY <4>1, <4>2
    <3> QED
      BY <3>6 DEF pair
  <2> HIDE DEF new
  <2>6. Synced(rows, response) = t /\ Len(t) = Len(response)
    BY <1>2, <2>1, <2>2 DEF new
  <2>7. Len(rows) = Len(response)
    BY <1>2 DEF n
  <2>8. /\ \A i \in DOMAIN rows : t[i].text = rows[i].text /\ t[i].day = rows[i].day
        /\ \A i, j \in DOMAIN rows :
             t[i].noteID = t[j].noteID /\ t[i].noteID # Nil => rows[i].text = rows[j].text
    BY <2>3, <2>4
  <2> QED
    BY <2>5, <2>6, <2>7, <2>8 DEF MergesByText
<1> QED
  BY <1>1, <1>2

\* What Array.remove(at:) leaves of an array, if the position is inside it.
LEMMA ShorterArray ==
  ASSUME NEW S, NEW s \in Seq(S), NEW i \in 1..Len(s)
  PROVE  RemoveAt(s, i) \in Seq(S)
<1>1. Len(s) \in Nat /\ \A k \in 1..Len(s) : s[k] \in S
  BY LenProperties
<1>2. SubSeq(s, 1, i - 1) \in Seq(S)
  BY <1>1, SubSeqProperties
<1>3. SubSeq(s, i + 1, Len(s)) \in Seq(S)
  BY <1>1, SubSeqProperties
<1> QED
  BY <1>2, <1>3, ConcatProperties DEF RemoveAt

\* What is left of an array at a position, when one element is taken out.
LEMMA ShorterElements ==
  ASSUME NEW S, NEW s \in Seq(S), NEW k \in 1..Len(s)
  PROVE  \A i \in DOMAIN RemoveAt(s, k) :
           /\ i \in Nat
           /\ \/ i < k /\ i \in DOMAIN s /\ RemoveAt(s, k)[i] = s[i]
              \/ i >= k /\ i + 1 \in DOMAIN s /\ RemoveAt(s, k)[i] = s[i + 1]
<1> DEFINE n == Len(s)
           head == SubSeq(s, 1, k - 1)
           tail == SubSeq(s, k + 1, n)
<1>1. n \in Nat /\ DOMAIN s = 1..n /\ k \in 1..n /\ \A i \in 1..n : s[i] \in S
  BY LenProperties
<1> HIDE DEF n
<1>2. /\ head \in Seq(S) /\ Len(head) = k - 1
      /\ \A i \in 1 .. k - 1 : head[i] = s[i]
  BY <1>1, SubSeqProperties
<1>3. /\ tail \in Seq(S) /\ Len(tail) = n - k
      /\ \A i \in 1 .. n - k : tail[i] = s[k + i]
  BY <1>1, SubSeqProperties
<1>4. RemoveAt(s, k) = head \o tail
  BY DEF RemoveAt, n
<1> HIDE DEF head, tail
<1>5. /\ head \o tail \in Seq(S) /\ Len(head \o tail) = n - 1
      /\ \A i \in 1 .. n - 1 :
           (head \o tail)[i] = IF i <= k - 1 THEN head[i] ELSE tail[i - (k - 1)]
  <2>1. /\ head \o tail \in Seq(S) /\ Len(head \o tail) = Len(head) + Len(tail)
        /\ \A i \in 1 .. Len(head) + Len(tail) :
             (head \o tail)[i] = IF i <= Len(head) THEN head[i] ELSE tail[i - Len(head)]
    BY <1>2, <1>3, ConcatProperties
  <2>2. Len(head) + Len(tail) = n - 1
    BY <1>1, <1>2, <1>3
  <2> QED
    BY <1>2, <2>1, <2>2
<1>6. DOMAIN (head \o tail) = 1 .. n - 1
  BY <1>5, LenProperties
<1>7. ASSUME NEW i \in 1 .. n - 1
      PROVE  /\ i \in Nat
             /\ \/ i < k /\ i \in 1..n /\ (head \o tail)[i] = s[i]
                \/ i >= k /\ i + 1 \in 1..n /\ (head \o tail)[i] = s[i + 1]
  <2>1. CASE i < k
    BY <1>1, <1>2, <1>5, <2>1
  <2>2. CASE i >= k
    <3>1. i - (k - 1) \in 1 .. n - k /\ k + (i - (k - 1)) = i + 1
      BY <1>1, <2>2
    <3>2. (head \o tail)[i] = tail[i - (k - 1)]
      BY <1>1, <1>5, <2>2
    <3>3. tail[i - (k - 1)] = s[k + (i - (k - 1))]
      BY <1>3, <3>1
    <3>4. i + 1 \in 1..n /\ (head \o tail)[i] = s[i + 1]
      BY <1>1, <3>1, <3>2, <3>3
    <3> QED
      BY <2>2, <3>4
  <2>3. i < k \/ i >= k
    BY <1>1
  <2> QED
    BY <2>1, <2>2, <2>3
<1> QED
  BY <1>1, <1>4, <1>6, <1>7

\* Array.remove(at:) takes out one element and no other.
LEMMA OthersRemain ==
  ASSUME NEW S, NEW s \in Seq(S), NEW k \in 1..Len(s), NEW j \in DOMAIN s, j # k
  PROVE  \E i \in DOMAIN RemoveAt(s, k) : RemoveAt(s, k)[i] = s[j]
<1> DEFINE n == Len(s)
           head == SubSeq(s, 1, k - 1)
           tail == SubSeq(s, k + 1, n)
           t == head \o tail
<1>1. n \in Nat /\ DOMAIN s = 1..n /\ k \in 1..n /\ j \in 1..n
  BY LenProperties
<1> HIDE DEF n
<1>2. /\ head \in Seq(S) /\ Len(head) = k - 1
      /\ \A i \in 1 .. k - 1 : head[i] = s[i]
  BY <1>1, SubSeqProperties
<1>3. /\ tail \in Seq(S) /\ Len(tail) = n - k
      /\ \A i \in 1 .. n - k : tail[i] = s[k + i]
  BY <1>1, SubSeqProperties
<1>4. RemoveAt(s, k) = t
  BY DEF RemoveAt, n
<1>5. /\ DOMAIN t = 1..(Len(head) + Len(tail))
      /\ \A i \in 1..(Len(head) + Len(tail)) :
           t[i] = IF i <= Len(head) THEN head[i] ELSE tail[i - Len(head)]
  BY <1>2, <1>3, ConcatProperties, LenProperties
<1> HIDE DEF head, tail, t
<1>6. DOMAIN t = 1..(n - 1)
  BY <1>1, <1>2, <1>3, <1>5
<1>7. CASE j < k
  <2>1. j \in 1..(n - 1) /\ j \in 1..(k - 1) /\ j <= Len(head)
    BY <1>1, <1>2, <1>7
  <2>2. t[j] = head[j]
    BY <1>5, <1>6, <2>1
  <2> QED
    BY <1>2, <1>4, <1>6, <2>1, <2>2
<1>8. CASE j > k
  <2>1. /\ j - 1 \in 1..(n - 1) /\ ~(j - 1 <= Len(head))
        /\ (j - 1) - Len(head) \in 1..(n - k)
        /\ k + ((j - 1) - Len(head)) = j
    BY <1>1, <1>2, <1>8
  <2>2. t[j - 1] = tail[(j - 1) - Len(head)]
    BY <1>5, <1>6, <2>1
  <2>3. tail[(j - 1) - Len(head)] = s[j]
    BY <1>3, <2>1
  <2> QED
    BY <1>4, <1>6, <2>1, <2>2, <2>3
<1> QED
  BY <1>1, <1>7, <1>8

\* Array.remove(at:) takes out one element.
LEMMA ShorterLength ==
  ASSUME NEW S, NEW s \in Seq(S), NEW k \in 1..Len(s)
  PROVE  Len(RemoveAt(s, k)) = Len(s) - 1
<1> DEFINE n == Len(s)
           head == SubSeq(s, 1, k - 1)
           tail == SubSeq(s, k + 1, n)
<1>1. n \in Nat /\ k \in 1..n /\ \A i \in 1..n : s[i] \in S
  BY LenProperties
<1> HIDE DEF n
<1>2. head \in Seq(S) /\ Len(head) = k - 1
  BY <1>1, SubSeqProperties
<1>3. tail \in Seq(S) /\ Len(tail) = n - k
  BY <1>1, SubSeqProperties
<1>4. RemoveAt(s, k) = head \o tail
  BY DEF RemoveAt, n
<1> HIDE DEF head, tail
<1>5. Len(head \o tail) = Len(head) + Len(tail)
  BY <1>2, <1>3, ConcatProperties
<1> QED
  BY <1>1, <1>2, <1>3, <1>4, <1>5 DEF n

\* 1..k has k members.
LEMMA IntervalHasLength == \A k \in Nat : Cardinality(1..k) = k
<1> TAKE k \in Nat
<1>1. CASE k = 0
  BY <1>1, FS_EmptySet
<1>2. CASE k # 0
  <2>1. 1 \in Int /\ k \in Int /\ ~(1 > k) /\ (k - 1) + 1 = k
    BY <1>2
  <2> QED
    BY <2>1, FS_Interval
<1> QED
  BY <1>1, <1>2

\* The first numbers, where they all belong to a set, are at their own ranks.
LEMMA FirstInTurn ==
  ASSUME NEW K \in SUBSET Nat, IsFiniteSet(K), 0 \notin K, NEW k \in Nat, k # 0,
         \A j \in 1..k : j \in K
  PROVE  Rank(K, k) = k /\ Nth(K, k) = k
<1>1. {j \in K : j <= k} = 1..k
  <2>1. ASSUME NEW j \in K, j <= k PROVE j \in 1..k
    <3>1. j \in Nat /\ j # 0
      OBVIOUS
    <3> QED
      BY <2>1, <3>1
  <2>2. \A j \in 1..k : j \in K /\ j <= k
    OBVIOUS
  <2> QED
    BY <2>1, <2>2
<1>2. Cardinality(1..k) = k
  BY IntervalHasLength
<1>3. Rank(K, k) = k
  BY <1>1, <1>2 DEF Rank
<1>4. k \in K
  OBVIOUS
<1> QED
  BY <1>3, <1>4, NthOfRank

\* Removing one more offset, below those removed before, is remove(at:) of that
\* offset: the step of the loop in Constant.swift, which goes by the offsets
\* from the highest down, for every array and every set of offsets.
THEOREM RemovalIsOneMore ==
  ASSUME NEW S, NEW s \in Seq(S), NEW I \in SUBSET Nat, NEW i \in DOMAIN s,
         \A m \in I : i < m
  PROVE  removeAtOffsets(s, I \cup {i}) = RemoveAt(removeAtOffsets(s, I), i)
<1> DEFINE K == Kept(s, I)
           L == Kept(s, I \cup {i})
           t == removeAtOffsets(s, I)
           u == removeAtOffsets(s, I \cup {i})
           n == Cardinality(K)
<1>1. /\ K \in SUBSET Nat /\ IsFiniteSet(K) /\ n \in Nat
      /\ L \in SUBSET Nat /\ IsFiniteSet(L)
      /\ DOMAIN s = 1..Len(s) /\ Len(s) \in Nat /\ i \in 1..Len(s)
  BY KeptIsFinite, LenProperties
<1>2. L = K \ {i} /\ i \in K
  BY <1>1 DEF Kept
<1>3. Cardinality(L) = n - 1
  BY <1>1, <1>2, FS_RemoveElement
<1>4. \A j \in 1..i : j \in K
  BY <1>1 DEF Kept
<1>5. /\ t \in Seq(S) /\ Len(t) = n /\ \A k \in 1..n : t[k] = s[Nth(K, k)]
  BY RemovalIsArray
<1>6. /\ u \in Seq(S) /\ Len(u) = n - 1 /\ DOMAIN u = 1..(n - 1)
      /\ \A k \in 1..(n - 1) : u[k] = s[Nth(L, k)]
  <2>1. /\ u \in Seq(S) /\ Len(u) = Cardinality(L) /\ DOMAIN u = 1..Len(u)
        /\ \A k \in 1..Len(u) : u[k] = s[Nth(L, k)]
    BY RemovalIsArray
  <2> QED
    BY <1>3, <2>1
<1> HIDE DEF K, L, t, u, n
<1>7. 0 \notin K /\ 0 \notin L /\ \A j \in 1..(i - 1) : j \in L
  <2>1. i \in Int /\ 0 \notin DOMAIN s
    BY <1>1
  <2>2. \A j \in 1..(i - 1) : j # i /\ j \in 1..i
    BY <2>1
  <2> QED
    BY <1>2, <1>4, <2>1, <2>2 DEF K, Kept
<1>8. Rank(K, i) = i
  <2>1. i \in Nat /\ i # 0
    BY <1>1
  <2> QED
    BY <1>1, <1>4, <1>7, <2>1, FirstInTurn
<1>9. i <= n
  <2>1. Rank(K, i) \in 1..n
    BY <1>1, <1>2, NthOfRank DEF n
  <2> QED
    BY <1>1, <1>8, <2>1
<1>10. ASSUME NEW k \in 1..(n - 1), k < i PROVE Nth(L, k) = k /\ Nth(K, k) = k
  <2>1. k \in Nat /\ k # 0 /\ \A j \in 1..k : j \in K /\ j \in L
    BY <1>1, <1>4, <1>7, <1>10
  <2> QED
    BY <1>1, <1>7, <2>1, FirstInTurn
<1>11. ASSUME NEW k \in 1..(n - 1), ~(k < i) PROVE Nth(L, k) = Nth(K, k + 1)
  <2> DEFINE m == Nth(K, k + 1)
  <2>1. m \in K /\ Rank(K, m) = k + 1
    <3>1. k + 1 \in 1..Cardinality(K)
      BY <1>1 DEF n
    <3> QED
      BY <1>1, <3>1, NthIsMember
  <2> HIDE DEF m
  <2>2. m \in Nat /\ i \in Nat /\ k \in Nat /\ Rank(K, i) = i
    BY <1>1, <1>8, <2>1
  <2>3. ~(m < i) /\ m # i
    BY <1>1, <1>2, <1>11, <2>1, <2>2, RankGrows
  <2>4. m \in L /\ i < m
    BY <1>2, <2>1, <2>2, <2>3
  <2>5. {j \in L : j <= m} = {j \in K : j <= m} \ {i}
    BY <1>2
  <2>6. IsFiniteSet({j \in K : j <= m}) /\ i \in {j \in K : j <= m}
    <3>1. {j \in K : j <= m} \in SUBSET K
      OBVIOUS
    <3>2. i \in K /\ i <= m
      BY <1>2, <2>2, <2>4
    <3> QED
      BY <1>1, <3>1, <3>2, FS_Subset
  <2>7. Rank(L, m) = Rank(K, m) - 1
    <3> DEFINE A == {j \in K : j <= m}
    <3>1. Cardinality(A \ {i}) = Cardinality(A) - 1
      BY <2>6, FS_RemoveElement
    <3> QED
      BY <2>5, <3>1 DEF Rank
  <2>8. Rank(L, m) = k
    BY <2>1, <2>2, <2>7
  <2> QED
    BY <1>1, <2>4, <2>8, NthOfRank DEF m
<1>12. Len(RemoveAt(t, i)) = n - 1 /\ RemoveAt(t, i) \in Seq(S)
  BY <1>1, <1>5, <1>9, ShorterArray, ShorterLength
<1>13. ASSUME NEW k \in 1..(n - 1) PROVE u[k] = RemoveAt(t, i)[k]
  <2>1. i \in 1..Len(t) /\ k \in DOMAIN RemoveAt(t, i)
    BY <1>1, <1>5, <1>9, <1>12
  <2>2. \/ k < i /\ RemoveAt(t, i)[k] = t[k]
        \/ ~(k < i) /\ RemoveAt(t, i)[k] = t[k + 1]
    BY <1>1, <1>5, <2>1, ShorterElements
  <2>3. k \in 1..n /\ k + 1 \in 1..n
    BY <1>1
  <2> QED
    BY <1>5, <1>6, <1>10, <1>11, <2>2, <2>3
<1>14. DOMAIN RemoveAt(t, i) = 1..(n - 1)
  BY <1>12, LenProperties
<1>15. /\ u = [k \in 1..(n - 1) |-> u[k]]
       /\ RemoveAt(t, i) = [k \in 1..(n - 1) |-> RemoveAt(t, i)[k]]
  BY <1>6, <1>12, <1>14
<1> QED
  BY <1>13, <1>15 DEF t, u

\* Removing no offset leaves the array.
THEOREM RemovalOfNone ==
  ASSUME NEW S, NEW s \in Seq(S)
  PROVE  removeAtOffsets(s, {}) = s
<1> DEFINE n == Len(s)
           K == Kept(s, {})
<1>1. n \in Nat /\ DOMAIN s = 1..n /\ K = 1..n
  BY LenProperties DEF Kept
<1>2. s = [k \in 1..n |-> s[k]]
  BY <1>1
<1>3. K \in SUBSET Nat /\ IsFiniteSet(K) /\ Cardinality(K) = n
  BY KeptIsFinite, <1>1, IntervalHasLength
<1>4. removeAtOffsets(s, {}) = [k \in 1..Cardinality(K) |-> s[Nth(K, k)]]
  BY DEF removeAtOffsets, Kept
<1> HIDE DEF n, K
<1>5. ASSUME NEW k \in 1..n PROVE Nth(K, k) = k
  <2>1. k \in Nat /\ k # 0 /\ 0 \notin K /\ \A j \in 1..k : j \in K
    BY <1>1
  <2> QED
    BY <1>3, <2>1, FirstInTurn
<1> QED
  BY <1>2, <1>3, <1>4, <1>5

---------------------------------------------------------------------------
(* The inductive invariant.                                                *)

Items == [delete |-> DeletePendingData, edit |-> EditPendingData, post |-> PendingData]

\* The requests in flight are finitely many and carry what their operation
\* needs.
NetOK ==
  /\ net \subseteq Request
  /\ IsFiniteSet(net)
  /\ \A r \in net : r.op \in Kind => r.arg \in Items[r.op]

\* The drain's requests are told apart by their offsets.
OneEach == \A r, s \in InFlight : r.idx = s.idx => r = s

\* The local variables of the chain.  Nothing is said of the queue the array
\* was captured from: the screens may have added to it since.
ChainOK ==
  /\ phase \in Kind \cup {"none"}
  /\ snapshot \in Seq(Entry)
  /\ indicesToRemove \subseteq Nat
  /\ group \in Nat
  /\ phase \in Kind => snapshot \in Seq(Items[phase])
  /\ Barrier
  /\ OffsetsSound
  /\ OneEach

\* What the steps of the chain and of the server keep, whoever else is at work.
LaunchInv ==
  /\ DeviceTypeOK
  /\ NetOK
  /\ ~running => net = {} /\ phase = "none"
  /\ ChainOK
  /\ ObjectsApart

\* The array captured is still the queue q of its kind.
Captured(q) == phase \in Kind => snapshot = q[phase]

\* The inductive invariant of the chain on its own.
IInv == LaunchInv /\ Captured(queue)

---------------------------------------------------------------------------
(* What the helpers of the steps establish.                                *)

\* The list on screen is a list of objects.
LEMMA SavedList ==
  ASSUME NEW rows \in Seq(UserEntity), SaveUserData(rows)
  PROVE  userData' \in Seq(Nat)
<1> DEFINE n == Len(rows)
           obj(i) == Reverse(rows)[i].obj
<1>1. n \in Nat /\ DOMAIN rows = 1..n /\ \A i \in 1..n : rows[i] \in UserEntity
  BY LenProperties
<1>2. \A i \in 1..n : (n - i) + 1 \in 1..n
  BY <1>1
<1>3. \A i \in 1..n : Reverse(rows)[i] = rows[(n - i) + 1]
  BY <1>1 DEF Reverse
<1>4. \A i \in 1..n : obj(i) \in Nat
  BY <1>1, <1>2, <1>3 DEF UserEntity
<1>5. userData' = [i \in 1..n |-> obj(i)]
  BY <1>1 DEF SaveUserData
<1>6. userData' \in [1..n -> Nat]
  BY <1>4, <1>5
<1> HIDE DEF n
<1> QED
  BY <1>1, <1>6

\* A queue is an array of the entries of its kind.
LEMMA QueueOfKind ==
  ASSUME NEW q \in Queues, NEW kind \in Kind
  PROVE  q[kind] \in Seq(Items[kind]) /\ q[kind] \in Seq(Entry)
<1>1. q[kind] \in Seq(Items[kind])
  BY DEF Queues, Kind, Items
<1>2. Items[kind] \subseteq Entry
  BY DEF Kind, Items, Entry
<1> QED
  BY <1>1, <1>2, SeqMonotonic

\* What a new request looks like.
LEMMA NewRequestType ==
  ASSUME NEW by \in Caller, NEW who \in Nat, NEW idx \in Nat, NEW op \in Op,
         NEW arg \in Entry \cup {NoArg}, uid \in Account \cup {NoAccount},
         NEW r, r = NewRequest(by, who, idx, op, arg)
  PROVE  /\ r \in Request
         /\ r.by = by /\ r.op = op /\ r.idx = idx /\ r.arg = arg
<1>1. <<>> \in Seq(ServerNote)
  BY EmptySeq
<1> QED
  BY <1>1 DEF NewRequest, Request

\* Starting a drain: one request per entry, each with its own offset, and a
\* group that counts them.
LEMMA DrainStarts ==
  ASSUME NetOK, InFlight = {}, uid \in Account \cup {NoAccount},
         NEW q \in Queues, NEW kind \in Kind, Drain(kind, q[kind])
  PROVE  NetOK' /\ ChainOK'
<1> DEFINE s  == q[kind]
           n  == Len(s)
           rq(i) == NewRequest("launch", 0, i, kind, s[i])
           f  == [i \in 1..n |-> rq(i)]
           R  == {rq(i) : i \in 1..n}
<1>1. s \in Seq(Items[kind]) /\ s \in Seq(Entry)
  BY QueueOfKind
<1>2. /\ n \in Nat /\ DOMAIN s = 1..n
      /\ \A i \in 1..n : s[i] \in Items[kind] /\ s[i] \in Entry
  BY <1>1, LenProperties
<1>3. kind \in Op /\ "launch" \in Caller
  BY DEF Op, Kind, Caller
<1>4. \A i \in 1..n : /\ rq(i) \in Request
                      /\ rq(i).by = "launch" /\ rq(i).op = kind
                      /\ rq(i).idx = i /\ rq(i).arg = s[i]
  BY <1>2, <1>3, NewRequestType
<1>5. net' = net \cup R
  BY <1>2 DEF Drain
<1> HIDE DEF rq
<1>6. f \in Bijection(1..n, R)
  BY <1>4 DEF Bijection, Injection, Surjection, IsInjective
<1>7. IsFiniteSet(R) /\ Cardinality(R) = n
  <2> HIDE DEF n, f, R
  <2>1. IsFiniteSet(1..n) /\ Cardinality(1..n) = n
    BY <1>2, FS_Interval
  <2>2. ExistsBijection(1..n, R)
    BY <1>6 DEF ExistsBijection
  <2> QED
    BY <2>1, <2>2, FS_Bijection
<1>8. NetOK'
  <2>1. IsFiniteSet(net')
    BY <1>5, <1>7, FS_Union DEF NetOK
  <2> QED
    BY <1>2, <1>4, <1>5, <2>1 DEF NetOK
<1>9. InFlight' = R
  BY <1>4, <1>5 DEF InFlight
<1>10. /\ phase' = kind /\ snapshot' = s /\ indicesToRemove' = {} /\ group' = n
  BY DEF Drain
<1>11. Barrier' /\ OffsetsSound' /\ OneEach'
  BY <1>2, <1>4, <1>7, <1>9, <1>10 DEF Barrier, OffsetsSound, OneEach
<1> QED
  BY <1>1, <1>2, <1>8, <1>10, <1>11 DEF ChainOK

\* Without a drain the chain's variables are at rest.
LEMMA IdleIsOK ==
  ASSUME Idle, InFlight' = {}
  PROVE  ChainOK'
<1>1. /\ phase' = "none" /\ snapshot' = <<>> /\ indicesToRemove' = {} /\ group' = 0
  BY DEF Idle
<1>2. snapshot' \in Seq(Entry)
  BY <1>1, EmptySeq
<1>3. Cardinality({}) = 0
  BY FS_EmptySet
<1>4. Barrier' /\ OffsetsSound' /\ OneEach'
  BY <1>1, <1>3 DEF Barrier, OffsetsSound, OneEach
<1> QED
  BY <1>1, <1>2, <1>4 DEF ChainOK, Kind

\* The third phase, entered while nothing of a drain is in flight.
LEMMA PostStarts ==
  ASSUME NetOK, InFlight = {}, uid \in Account \cup {NoAccount},
         notes \in Seq(UserEntity), userData \in Seq(Nat),
         overlay \in BOOLEAN, running \in BOOLEAN,
         NEW q \in Queues, postPendingUserNotes(q)
  PROVE  NetOK' /\ ChainOK' /\ userData' \in Seq(Nat) /\ overlay' \in BOOLEAN
<1>1. CASE /\ uid = NoAccount
           /\ Idle /\ UNCHANGED <<net, userData, overlay>>
  <2>1. NetOK' /\ InFlight' = {}
    BY <1>1 DEF NetOK, InFlight
  <2> QED
    BY <1>1, <2>1, IdleIsOK
<1>2. CASE /\ uid # NoAccount /\ q.post = <<>>
           /\ Idle
           /\ net' = net \cup {NewRequest("launch", 0, 1, "fetch", NoArg)}
           /\ StartLoader
           /\ SaveUserData(notes)
  <2> DEFINE r == NewRequest("launch", 0, 1, "fetch", NoArg)
  <2>1. r \in Request /\ r.op = "fetch"
    <3>1. /\ "launch" \in Caller /\ "fetch" \in Op /\ 0 \in Nat /\ 1 \in Nat
          /\ NoArg \in Entry \cup {NoArg}
      BY DEF Caller, Op
    <3> QED
      BY <3>1, NewRequestType
  <2>2. net' = net \cup {r} /\ "fetch" \notin Kind
    BY <1>2 DEF Kind
  <2> HIDE DEF r
  <2>3. InFlight' = {}
    BY <2>1, <2>2 DEF InFlight
  <2>4. IsFiniteSet(net')
    BY <2>2, FS_AddElement DEF NetOK
  <2>5. NetOK'
    BY <2>1, <2>2, <2>4 DEF NetOK
  <2>6. userData' \in Seq(Nat)
    BY <1>2, SavedList
  <2>7. overlay' \in BOOLEAN
    BY <1>2 DEF StartLoader
  <2> QED
    BY <1>2, <2>3, <2>5, <2>6, <2>7, IdleIsOK
<1>3. CASE /\ uid # NoAccount /\ q.post # <<>>
           /\ Drain("post", q.post) /\ UNCHANGED <<userData, overlay>>
  BY <1>3, DrainStarts DEF Kind
<1> QED
  BY <1>1, <1>2, <1>3 DEF postPendingUserNotes

\* The second phase, and the third when there is no edit.
LEMMA EditStarts ==
  ASSUME NetOK, InFlight = {}, uid \in Account \cup {NoAccount},
         notes \in Seq(UserEntity), userData \in Seq(Nat),
         overlay \in BOOLEAN, running \in BOOLEAN,
         NEW q \in Queues, postEditedPendingData(q)
  PROVE  NetOK' /\ ChainOK' /\ userData' \in Seq(Nat) /\ overlay' \in BOOLEAN
<1>1. CASE q.edit = <<>>
  BY <1>1, PostStarts DEF postEditedPendingData
<1>2. CASE q.edit # <<>>
  BY <1>2, DrainStarts DEF postEditedPendingData, Kind
<1> QED
  BY <1>1, <1>2

\* The first phase, and what follows when there is no deletion.
LEMMA DeleteStarts ==
  ASSUME NetOK, InFlight = {}, uid \in Account \cup {NoAccount},
         notes \in Seq(UserEntity), userData \in Seq(Nat),
         overlay \in BOOLEAN, running \in BOOLEAN,
         NEW q \in Queues, postDeletePendingData(q)
  PROVE  NetOK' /\ ChainOK' /\ userData' \in Seq(Nat) /\ overlay' \in BOOLEAN
<1>1. CASE q.delete = <<>>
  BY <1>1, EditStarts DEF postDeletePendingData
<1>2. CASE q.delete # <<>>
  BY <1>2, DrainStarts DEF postDeletePendingData, Kind
<1> QED
  BY <1>1, <1>2

\* A budget is spent in units.
LEMMA SpendType ==
  ASSUME left \in [Resource -> Nat], NEW what \in Resource, Spend(what)
  PROVE  left' \in [Resource -> Nat]
<1>1. left[what] \in Nat /\ left[what] - 1 \in Nat
  BY DEF Spend, SpendAll
<1> QED
  BY <1>1 DEF Spend, SpendAll

LEMMA FailedType ==
  ASSUME left \in [Resource -> Nat], NEW r, Failed(r)
  PROVE  left' \in [Resource -> Nat]
<1>1. CASE online
  BY <1>1, SpendType, LimitAssumption DEF Failed
<1>2. CASE ~online
  BY <1>2 DEF Failed
<1> QED
  BY <1>1, <1>2

---------------------------------------------------------------------------
(* What a request's answer does to the chain.                              *)

\* The requests of the drain are finitely many.
LEMMA InFlightFinite ==
  ASSUME NetOK
  PROVE  IsFiniteSet(InFlight) /\ Cardinality(InFlight) \in Nat
<1>1. InFlight \in SUBSET net
  BY DEF InFlight
<1> QED
  BY <1>1, FS_Subset, FS_CardinalityType DEF NetOK

\* A handler of the drain leaves the group: the barrier and the offsets stay
\* sound, with the offset of its entry or without.
LEMMA HandlerKeepsBarrier ==
  ASSUME NetOK, ChainOK, NEW r \in InFlight,
         net' = net \ {r}, group' = group - 1,
         UNCHANGED <<phase, snapshot>>,
         indicesToRemove' = indicesToRemove \/
           indicesToRemove' = indicesToRemove \cup {r.idx}
  PROVE  NetOK' /\ ChainOK'
<1>1. InFlight' = InFlight \ {r}
  BY DEF InFlight
<1>2. /\ IsFiniteSet(InFlight)
      /\ Cardinality(InFlight) \in Nat
      /\ Cardinality(InFlight \ {r}) = Cardinality(InFlight) - 1
  BY InFlightFinite, FS_RemoveElement
<1>3. IsFiniteSet(InFlight \ {r}) /\ Cardinality(InFlight \ {r}) \in Nat
  BY <1>2, FS_RemoveElement, FS_CardinalityType
<1>4. group = Cardinality(InFlight)
  BY DEF ChainOK, Barrier
<1>5. group' = Cardinality(InFlight') /\ group' \in Nat
  BY <1>1, <1>2, <1>3, <1>4
<1>6. NetOK'
  <2>1. IsFiniteSet(net')
    BY FS_RemoveElement DEF NetOK
  <2> QED
    BY <2>1 DEF NetOK
<1>7. r.idx \in DOMAIN snapshot
  BY DEF ChainOK, Barrier
<1>8. Barrier'
  BY <1>1, <1>5 DEF ChainOK, Barrier
<1>9. OneEach'
  BY <1>1 DEF ChainOK, OneEach
<1>10. OffsetsSound'
  <2>1. indicesToRemove' \subseteq DOMAIN snapshot'
    BY <1>7 DEF ChainOK, OffsetsSound
  <2>2. ASSUME NEW s \in InFlight' PROVE s.idx \notin indicesToRemove'
    <3>1. s \in InFlight /\ s # r
      BY <1>1
    <3>2. s.idx # r.idx
      BY <3>1 DEF ChainOK, OneEach
    <3>3. s.idx \notin indicesToRemove
      BY <3>1 DEF ChainOK, OffsetsSound
    <3> QED
      BY <3>2, <3>3
  <2> QED
    BY <2>1, <2>2 DEF OffsetsSound
<1>11. indicesToRemove' \subseteq Nat
  <2>1. snapshot \in Seq(Entry)
    BY DEF ChainOK
  <2>2. DOMAIN snapshot \subseteq Nat
    BY <2>1, LenProperties
  <2> QED
    BY <1>10, <2>2 DEF OffsetsSound
<1> QED
  BY <1>5, <1>6, <1>8, <1>9, <1>10, <1>11 DEF ChainOK

\* The server's answer changes none of what tells requests apart.
LEMMA AnswerKeepsBarrier ==
  ASSUME NetOK, ChainOK, NEW r \in net, ~r.done,
         NEW id \in Nat, NEW rows \in Seq(ServerNote), Answer(r, id, rows),
         UNCHANGED chainVars
  PROVE  NetOK' /\ ChainOK'
<1> DEFINE t == [r EXCEPT !.done = TRUE, !.id = id, !.rows = rows]
<1>1. r \in Request
  BY DEF NetOK
<1>2. /\ t \in Request /\ t # r
      /\ t.by = r.by /\ t.op = r.op /\ t.idx = r.idx /\ t.arg = r.arg
  BY <1>1 DEF Request
<1>3. net' = (net \ {r}) \cup {t} /\ queue' = queue
  BY DEF Answer, storeVars
<1> HIDE DEF t
<1>4. UNCHANGED <<phase, snapshot, indicesToRemove, group>>
  BY DEF chainVars
<1>5. NetOK'
  <2>1. IsFiniteSet((net \ {r}) \cup {t})
    BY FS_RemoveElement, FS_AddElement DEF NetOK
  <2> QED
    BY <1>2, <1>3, <2>1 DEF NetOK
<1>6. CASE r \in InFlight
  <2>1. InFlight' = (InFlight \ {r}) \cup {t}
    BY <1>2, <1>3, <1>6 DEF InFlight
  <2>2. t \notin InFlight
    BY <1>2, <1>6 DEF ChainOK, OneEach
  <2>3. IsFiniteSet(InFlight) /\ Cardinality(InFlight) \in Nat
    BY InFlightFinite
  <2>4. /\ IsFiniteSet(InFlight \ {r})
        /\ Cardinality(InFlight \ {r}) = Cardinality(InFlight) - 1
    BY <1>6, <2>3, FS_RemoveElement
  <2>5. Cardinality((InFlight \ {r}) \cup {t}) = Cardinality(InFlight \ {r}) + 1
    BY <2>2, <2>4, FS_AddElement
  <2>6. Cardinality(InFlight') = Cardinality(InFlight)
    BY <2>1, <2>3, <2>4, <2>5
  <2>7. \A s \in InFlight' : \E u \in InFlight :
          s.idx = u.idx /\ s.op = u.op /\ s.arg = u.arg
    BY <1>2, <1>6, <2>1
  <2>8. Barrier' /\ OffsetsSound'
    BY <1>4, <2>6, <2>7 DEF ChainOK, Barrier, OffsetsSound
  <2>9. OneEach'
    BY <1>2, <1>6, <2>1 DEF ChainOK, OneEach
  <2> QED
    BY <1>3, <1>4, <1>5, <2>8, <2>9 DEF ChainOK
<1>7. CASE r \notin InFlight
  <2>1. InFlight' = InFlight
    BY <1>2, <1>3, <1>7 DEF InFlight
  <2> QED
    BY <1>3, <1>4, <1>5, <2>1 DEF ChainOK, Barrier, OffsetsSound, OneEach
<1> QED
  BY <1>6, <1>7

---------------------------------------------------------------------------
(* One lemma per action: the invariant is kept.                            *)

LEMMA InitIsOK == Init => LaunchInv
<1> SUFFICES ASSUME Init PROVE LaunchInv
  OBVIOUS
<1>1. net = {} /\ InFlight = {} /\ phase = "none" /\ group = 0
  BY DEF Init, InFlight
<1>2. IsFiniteSet({}) /\ Cardinality({}) = 0
  BY FS_EmptySet
<1>3. NetOK
  BY <1>1, <1>2 DEF NetOK
<1>4. snapshot = <<>> /\ snapshot \in Seq(Entry) /\ indicesToRemove = {}
  BY EmptySeq DEF Init
<1>5. Barrier /\ OffsetsSound /\ OneEach
  BY <1>1, <1>2, <1>4 DEF Barrier, OffsetsSound, OneEach
<1>6. ChainOK
  BY <1>1, <1>4, <1>5 DEF ChainOK, Kind
<1> QED
  BY <1>1, <1>3, <1>6 DEF Init, LaunchInv

LEMMA LaunchIsOK == LaunchInv /\ Launch => LaunchInv'
<1> SUFFICES ASSUME LaunchInv, Launch PROVE LaunchInv'
  OBVIOUS
<1>1. DeviceTypeOK /\ NetOK /\ ObjectsApart /\ InFlight = {}
  BY DEF LaunchInv, Launch, InFlight
<1>2. /\ running' = TRUE /\ postDeletePendingData(queue)
      /\ UNCHANGED <<notes, queue, uid, nextObj, server, nextID, online, left>>
  BY DEF Launch, storeVars, remoteVars
<1>3. PICK q \in Queues : q = queue
  BY <1>1 DEF DeviceTypeOK
<1>4. postDeletePendingData(q)
  BY <1>2, <1>3 DEF postDeletePendingData, postEditedPendingData, postPendingUserNotes
<1>5. NetOK' /\ ChainOK' /\ userData' \in Seq(Nat) /\ overlay' \in BOOLEAN
  BY <1>1, <1>4, DeleteStarts DEF DeviceTypeOK
<1>6. DeviceTypeOK' /\ ObjectsApart'
  BY <1>1, <1>2, <1>5 DEF DeviceTypeOK, NetOK, ObjectsApart
<1> QED
  BY <1>2, <1>5, <1>6 DEF LaunchInv

\* Replacing one queue by an array of its kind leaves queues.
LEMMA QueueReplaced ==
  ASSUME NEW q \in Queues, NEW kind \in Kind, NEW s \in Seq(Items[kind])
  PROVE  [q EXCEPT ![kind] = s] \in Queues
<1>1. CASE kind = "delete"
  BY <1>1 DEF Queues, Items
<1>2. CASE kind = "edit"
  BY <1>2 DEF Queues, Items
<1>3. CASE kind = "post"
  BY <1>3 DEF Queues, Items
<1> QED
  BY <1>1, <1>2, <1>3 DEF Kind

\* When the group is empty nothing of the drain is in flight, and what is
\* written back are queues.
LEMMA NotifyWrites ==
  ASSUME LaunchInv, phase \in Kind, group = 0
  PROVE  InFlight = {} /\ Written \in Queues
<1>1. IsFiniteSet(InFlight) /\ Cardinality(InFlight) = 0
  BY InFlightFinite DEF LaunchInv, ChainOK, Barrier
<1>2. InFlight = {}
  BY <1>1, FS_EmptySet
<1>3. queue \in Queues /\ snapshot \in Seq(Items[phase])
  BY DEF LaunchInv, DeviceTypeOK, ChainOK
<1>4. removeAtOffsets(snapshot, indicesToRemove) \in Seq(Items[phase])
  BY <1>3, RemovalIsArray
<1>5. Written \in Queues
  BY <1>3, <1>4, QueueReplaced DEF Written
<1> QED
  BY <1>2, <1>5

LEMMA NotifyIsOK == LaunchInv /\ Notify => LaunchInv'
<1> SUFFICES ASSUME LaunchInv, Notify PROVE LaunchInv'
  OBVIOUS
<1>1. phase \in Kind /\ group = 0 /\ queue' = Written
  BY DEF Notify, NotifyDeletes, NotifyEdits, NotifyPosts, Kind
<1>2. InFlight = {} /\ Written \in Queues
  BY <1>1, NotifyWrites
<1>3. PICK q \in Queues : q = Written
  BY <1>2
<1>4. DeviceTypeOK /\ NetOK /\ ObjectsApart /\ running
  BY <1>1 DEF LaunchInv, Kind
<1>5. UNCHANGED <<notes, uid, nextObj, server, nextID, running, online, left>>
  BY DEF Notify, NotifyDeletes, NotifyEdits, NotifyPosts, remoteVars
<1>6. NetOK' /\ ChainOK' /\ userData' \in Seq(Nat) /\ overlay' \in BOOLEAN
  <2>1. CASE NotifyDeletes
    <3>1. postEditedPendingData(q)
      BY <1>3, <2>1 DEF NotifyDeletes, postEditedPendingData, postPendingUserNotes
    <3> QED
      BY <1>2, <1>4, <3>1, EditStarts DEF DeviceTypeOK
  <2>2. CASE NotifyEdits
    <3>1. postPendingUserNotes(q)
      BY <1>3, <2>2 DEF NotifyEdits, postPendingUserNotes
    <3> QED
      BY <1>2, <1>4, <3>1, PostStarts DEF DeviceTypeOK
  <2>3. CASE NotifyPosts
    <3>1. Idle /\ UNCHANGED <<net, userData, overlay>>
      BY <2>3 DEF NotifyPosts
    <3>2. InFlight' = {} /\ NetOK'
      BY <1>2, <1>4, <3>1 DEF InFlight, NetOK
    <3> QED
      BY <1>4, <3>1, <3>2, IdleIsOK DEF DeviceTypeOK
  <2> QED
    BY <2>1, <2>2, <2>3 DEF Notify
<1>7. DeviceTypeOK' /\ ObjectsApart'
  BY <1>1, <1>2, <1>4, <1>5, <1>6 DEF DeviceTypeOK, NetOK, ObjectsApart
<1> QED
  BY <1>4, <1>5, <1>6, <1>7 DEF LaunchInv

LEMMA RequestFailsIsOK ==
  ASSUME LaunchInv, NEW r \in net, LaunchRequestFails(r)
  PROVE  LaunchInv'
<1>1. r \in InFlight /\ net' = net \ {r} /\ group' = group - 1
  BY DEF LaunchRequestFails, Waiting, InFlight
<1>2. /\ UNCHANGED <<notes, queue, uid, nextObj, server, nextID, userData, running,
                     overlay, online, phase, snapshot, indicesToRemove>>
      /\ Failed(r)
  BY DEF LaunchRequestFails, storeVars, remoteVars
<1>3. NetOK' /\ ChainOK'
  BY <1>1, <1>2, HandlerKeepsBarrier DEF LaunchInv
<1>4. left' \in [Resource -> Nat]
  BY <1>2, FailedType DEF LaunchInv, DeviceTypeOK
<1>5. DeviceTypeOK' /\ ObjectsApart'
  BY <1>2, <1>3, <1>4 DEF LaunchInv, DeviceTypeOK, NetOK, ObjectsApart
<1>6. ~running' => net' = {} /\ phase' = "none"
  BY <1>1, <1>2 DEF LaunchInv
<1> QED
  BY <1>3, <1>5, <1>6 DEF LaunchInv

\* The row that is stamped has the entry's text afterwards, no other row has
\* lost its own, and the rows are the same objects.
LEMMA Stamping ==
  ASSUME LaunchInv, NEW r \in net, LaunchRequestSucceeds(r)
  PROVE  /\ notes' \in Seq(UserEntity)
         /\ userData' \in Seq(Nat)
         /\ DOMAIN notes' = DOMAIN notes
         /\ \A i \in DOMAIN notes :
              /\ notes'[i].obj = notes[i].obj
              /\ \/ notes'[i].text = notes[i].text
                 \/ /\ r.op = "post"
                    /\ i = getUserContextForDay(notes, r.arg.day)
                    /\ notes'[i].text = r.arg.text
<1> DEFINE k == IF r.op = "post" THEN getUserContextForDay(notes, r.arg.day) ELSE 0
<1>1. notes \in Seq(UserEntity) /\ userData \in Seq(Nat) /\ r \in Request
  BY DEF LaunchInv, DeviceTypeOK, NetOK
<1>2. CASE k = 0
  BY <1>1, <1>2 DEF LaunchRequestSucceeds
<1>3. CASE k # 0
  <2>1. r.op = "post" /\ k = getUserContextForDay(notes, r.arg.day)
    BY <1>3
  <2>2. k \in DOMAIN notes
    BY <1>1, <1>3, <2>1, RowOfDay
  <2>3. r.arg.text \in Text /\ r.id \in Int
    <3>1. r.arg \in PendingData
      BY <2>1 DEF LaunchInv, NetOK, Items, Kind
    <3> QED
      BY <1>1, <3>1 DEF PendingData, Request
  <2>4. /\ notes' = editUserContext(notes, notes[k].obj, r.arg.text, r.id)
        /\ SaveUserData(notes)
    BY <1>3 DEF LaunchRequestSucceeds
  <2> DEFINE o == notes[k].obj
             x == r.arg.text
             m == r.id
  <2>5. /\ x \in Text /\ m \in Int /\ notes' = editUserContext(notes, o, x, m)
        /\ x = r.arg.text
    BY <2>3, <2>4
  <2>6. \A i \in DOMAIN notes : notes[i].obj = o => i = k
    BY <2>2 DEF LaunchInv, ObjectsApart
  <2>7. userData' \in Seq(Nat)
    BY <1>1, <2>4, SavedList
  <2> HIDE DEF o, x, m, k
  <2>8. /\ notes' \in Seq(UserEntity) /\ DOMAIN notes' = DOMAIN notes
        /\ \A i \in DOMAIN notes : /\ notes'[i].obj = notes[i].obj
                                   /\ notes[i].obj # o => notes'[i] = notes[i]
                                   /\ notes[i].obj = o => notes'[i].text = x
    BY <1>1, <2>5, EditedRows
  <2>9. ASSUME NEW i \in DOMAIN notes
        PROVE  \/ notes'[i].text = notes[i].text
               \/ i = k /\ notes'[i].text = x
    <3>1. CASE notes[i].obj = o
      BY <2>6, <2>8, <3>1
    <3>2. CASE notes[i].obj # o
      BY <2>8, <3>2
    <3> QED
      BY <3>1, <3>2
  <2> QED
    BY <2>1, <2>5, <2>7, <2>8, <2>9
<1> QED
  BY <1>2, <1>3

LEMMA RequestSucceedsIsOK ==
  ASSUME LaunchInv, NEW r \in net, LaunchRequestSucceeds(r)
  PROVE  LaunchInv'
<1>1. /\ r \in InFlight /\ net' = net \ {r} /\ group' = group - 1
      /\ indicesToRemove' = indicesToRemove \cup {r.idx}
  BY DEF LaunchRequestSucceeds, Waiting, InFlight
<1>2. UNCHANGED <<queue, uid, nextObj, server, nextID, running, overlay, online, left,
                  phase, snapshot>>
  BY DEF LaunchRequestSucceeds, remoteVars, Delivered
<1>3. NetOK' /\ ChainOK'
  BY <1>1, <1>2, HandlerKeepsBarrier DEF LaunchInv
<1>4. /\ notes' \in Seq(UserEntity) /\ userData' \in Seq(Nat)
      /\ DOMAIN notes' = DOMAIN notes
      /\ \A i \in DOMAIN notes : notes'[i].obj = notes[i].obj
  BY Stamping
<1>5. DeviceTypeOK' /\ ObjectsApart'
  BY <1>2, <1>3, <1>4 DEF LaunchInv, DeviceTypeOK, NetOK, ObjectsApart
<1>6. ~running' => net' = {} /\ phase' = "none"
  BY <1>1, <1>2 DEF LaunchInv
<1> QED
  BY <1>3, <1>5, <1>6 DEF LaunchInv

\* The answer to the fetch, and the end of the process, are no business of
\* the drain's.
LEMMA FetchKeepsBarrier ==
  ASSUME LaunchInv, NEW r \in net, Fetching(r), net' = net \ {r},
         UNCHANGED <<queue, chainVars>>
  PROVE  NetOK' /\ ChainOK'
<1>1. InFlight' = InFlight
  BY DEF Fetching, InFlight, Kind
<1>2. IsFiniteSet(net')
  BY FS_RemoveElement DEF LaunchInv, NetOK
<1>3. NetOK'
  BY <1>2 DEF LaunchInv, NetOK
<1> QED
  BY <1>1, <1>3 DEF LaunchInv, ChainOK, Barrier, OffsetsSound, OneEach, chainVars

LEMMA FetchFailsIsOK ==
  ASSUME LaunchInv, NEW r \in net, FetchFails(r)
  PROVE  LaunchInv'
<1>1. /\ Fetching(r) /\ Failed(r) /\ net' = net \ {r} /\ overlay' = FALSE
      /\ UNCHANGED <<notes, queue, uid, nextObj, server, nextID, userData, running,
                     online, chainVars>>
  BY DEF FetchFails, storeVars, remoteVars, StopLoader
<1>2. NetOK' /\ ChainOK'
  BY <1>1, FetchKeepsBarrier
<1>3. left' \in [Resource -> Nat]
  BY <1>1, FailedType DEF LaunchInv, DeviceTypeOK
<1>4. DeviceTypeOK' /\ ObjectsApart'
  BY <1>1, <1>2, <1>3 DEF LaunchInv, DeviceTypeOK, NetOK, ObjectsApart
<1>5. ~running' => net' = {} /\ phase' = "none"
  BY <1>1 DEF LaunchInv, chainVars
<1> QED
  BY <1>2, <1>4, <1>5 DEF LaunchInv

LEMMA FetchSucceedsIsOK ==
  ASSUME LaunchInv, NEW r \in net, FetchSucceeds(r)
  PROVE  LaunchInv'
<1>1. /\ Fetching(r) /\ net' = net \ {r} /\ overlay' = FALSE
      /\ notes' = syncLocalWithServer(notes, r.rows, nextObj)
      /\ UNCHANGED <<queue, uid, server, nextID, running, online, left, chainVars>>
  BY DEF FetchSucceeds, Delivered, remoteVars, StopLoader
<1>2. NetOK' /\ ChainOK'
  BY <1>1, FetchKeepsBarrier
<1>3. /\ notes \in Seq(UserEntity) /\ nextObj \in Nat \ {0} /\ userData \in Seq(Nat)
      /\ r.rows \in Seq(ServerNote) /\ Len(r.rows) \in Nat
  <2>1. r \in Request
    BY DEF LaunchInv, NetOK
  <2>2. r.rows \in Seq(ServerNote)
    BY <2>1 DEF Request
  <2> QED
    BY <2>2, LenProperties DEF LaunchInv, DeviceTypeOK
<1>4. /\ notes' \in Seq(UserEntity) /\ userData' \in Seq(Nat)
      /\ nextObj' \in Nat \ {0} /\ ObjectsApart'
  <2>1. CASE Len(r.rows) # Len(notes)
    <3>1. /\ notes' = ResponseRows(r.rows, nextObj)
          /\ SaveUserData(notes') /\ nextObj' = nextObj + Len(r.rows)
      BY <1>1, <2>1 DEF FetchSucceeds, syncLocalWithServer
    <3>2. /\ notes' \in Seq(UserEntity) /\ Len(notes') = Len(r.rows)
          /\ \A i \in DOMAIN notes' : notes'[i].obj = nextObj + i - 1
      BY <1>3, <3>1, ResponseRowsAreRows
    <3>3. DOMAIN notes' = 1..Len(r.rows)
      BY <3>2, LenProperties
    <3>4. ObjectsApart'
      <4> DEFINE L == Len(r.rows)
      <4>1. /\ L \in Nat /\ nextObj \in Nat /\ nextObj' = nextObj + L
            /\ DOMAIN notes' = 1..L
            /\ \A i \in 1..L : notes'[i].obj = nextObj + i - 1
        BY <1>3, <3>1, <3>2, <3>3
      <4> HIDE DEF L
      <4> QED
        BY <4>1 DEF ObjectsApart
    <3>5. userData' \in Seq(Nat)
      BY <3>1, <3>2, SavedList
    <3> QED
      BY <1>3, <3>1, <3>2, <3>4, <3>5
  <2>2. CASE Len(r.rows) = Len(notes)
    <3>1. /\ notes' = updateLocalNoteIDs(notes, r.rows)
          /\ UNCHANGED <<userData, nextObj>>
      BY <1>1, <2>2 DEF FetchSucceeds, syncLocalWithServer
    <3>2. /\ notes' \in Seq(UserEntity) /\ DOMAIN notes' = DOMAIN notes
          /\ \A i \in DOMAIN notes : notes'[i].obj = notes[i].obj
      BY <1>3, <3>1, IdentifiedRows
    <3> QED
      BY <1>3, <3>1, <3>2 DEF LaunchInv, ObjectsApart
  <2> QED
    BY <2>1, <2>2
<1>5. DeviceTypeOK'
  BY <1>1, <1>2, <1>4 DEF LaunchInv, DeviceTypeOK, NetOK
<1>6. ~running' => net' = {} /\ phase' = "none"
  BY <1>1 DEF LaunchInv, chainVars
<1> QED
  BY <1>2, <1>4, <1>5, <1>6 DEF LaunchInv

LEMMA KillIsOK == LaunchInv /\ Kill => LaunchInv'
<1> SUFFICES ASSUME LaunchInv, Kill PROVE LaunchInv'
  OBVIOUS
<1>1. /\ running' = FALSE /\ net' = {} /\ userData' = <<>> /\ overlay' = FALSE
      /\ UNCHANGED <<notes, queue, uid, nextObj, server, nextID, online>>
      /\ Idle /\ Spend("kill")
  BY DEF Kill, ProcessEnds, storeVars, remoteVars
<1>2. left' \in [Resource -> Nat]
  BY <1>1, SpendType, LimitAssumption DEF LaunchInv, DeviceTypeOK
<1>3. InFlight' = {}
  BY <1>1 DEF InFlight
<1>4. ChainOK'
  BY <1>1, <1>3, IdleIsOK
<1>5. NetOK'
  BY <1>1, FS_EmptySet DEF NetOK
<1>6. DeviceTypeOK' /\ ObjectsApart'
  BY <1>1, <1>2, EmptySeq DEF LaunchInv, DeviceTypeOK, ObjectsApart
<1> QED
  BY <1>1, <1>4, <1>5, <1>6 DEF LaunchInv, Idle

LEMMA FlipIsOK == LaunchInv /\ Flip => LaunchInv'
<1> SUFFICES ASSUME LaunchInv, Flip PROVE LaunchInv'
  OBVIOUS
<1>1. /\ online' \in BOOLEAN /\ Spend("flip")
      /\ UNCHANGED <<notes, queue, uid, nextObj, server, nextID, userData, net,
                     running, overlay, phase, snapshot, indicesToRemove, group>>
  BY DEF Flip, NetworkChanges, storeVars, remoteVars, chainVars
<1>2. left' \in [Resource -> Nat]
  BY <1>1, SpendType, LimitAssumption DEF LaunchInv, DeviceTypeOK
<1>3. DeviceTypeOK' /\ ObjectsApart'
  BY <1>1, <1>2 DEF LaunchInv, DeviceTypeOK, ObjectsApart
<1> QED
  BY <1>1, <1>3 DEF LaunchInv, NetOK, ChainOK, Barrier, OffsetsSound, OneEach, InFlight

\* The server answers each request once, and its notes stay notes.
LEMMA ServerAnswers ==
  ASSUME LaunchInv, NEW r \in net,
         \/ ServerAddsNote(r) \/ ServerEditsNote(r) \/ ServerDeletesNote(r)
         \/ ServerListsNotes(r) \/ ServerDeletesUser(r) \/ ServerRegisters(r)
  PROVE  /\ \E id \in Nat, rows \in Seq(ServerNote) : ~r.done /\ Answer(r, id, rows)
         /\ server' \in [Account -> Seq(ServerNote)]
         /\ nextID' \in Nat \ {0}
<1>1. /\ r \in Request /\ server \in [Account -> Seq(ServerNote)]
      /\ nextID \in Nat \ {0} /\ <<>> \in Seq(ServerNote)
      /\ r.op \in Kind => r.arg \in Items[r.op]
  BY EmptySeq DEF LaunchInv, NetOK, DeviceTypeOK
<1>2. CASE ServerAddsNote(r)
  <2>1. r.arg.text \in Text
    BY <1>1, <1>2 DEF ServerAddsNote, Reaches, Kind, Items, PendingData
  <2> DEFINE n == [id |-> nextID, text |-> r.arg.text]
  <2>2. n \in ServerNote
    BY <1>1, <2>1 DEF ServerNote
  <2>3. server' = [server EXCEPT ![r.owner] = Append(@, n)] /\ nextID' = nextID + 1
    BY <1>2 DEF ServerAddsNote
  <2> HIDE DEF n
  <2>4. \A x \in Account : Append(server[x], n) \in Seq(ServerNote)
    BY <1>1, <2>2, AppendProperties
  <2>5. server' \in [Account -> Seq(ServerNote)]
    BY <1>1, <2>3, <2>4
  <2>6. ~r.done /\ Answer(r, nextID, <<>>)
    BY <1>2 DEF ServerAddsNote, Reaches
  <2>7. nextID \in Nat /\ nextID' \in Nat \ {0}
    BY <1>1, <2>3
  <2> QED
    BY <1>1, <2>5, <2>6, <2>7
<1>3. CASE ServerEditsNote(r)
  <2>1. r.arg.text \in Text
    BY <1>1, <1>3 DEF ServerEditsNote, Reaches, Kind, Items, EditPendingData
  <2> DEFINE edited(x, i) == IF server[x][i].id = r.arg.noteID
                               THEN [server[x][i] EXCEPT !.text = r.arg.text]
                               ELSE server[x][i]
             list(x) == [i \in DOMAIN server[x] |-> edited(x, i)]
  <2>2. server' = [x \in Account |-> list(x)]
    BY <1>3 DEF ServerEditsNote
  <2>3. ASSUME NEW x \in Account PROVE list(x) \in Seq(ServerNote)
    <3> DEFINE n == Len(server[x])
    <3>1. n \in Nat /\ DOMAIN server[x] = 1..n /\ \A i \in 1..n : server[x][i] \in ServerNote
      BY <1>1, LenProperties
    <3>2. \A i \in 1..n : edited(x, i) \in ServerNote
      BY <2>1, <3>1 DEF ServerNote
    <3> HIDE DEF edited, n
    <3>3. list(x) \in [1..n -> ServerNote]
      BY <3>1, <3>2
    <3> HIDE DEF list
    <3> QED
      BY <3>1, <3>3
  <2> HIDE DEF list
  <2>4. server' \in [Account -> Seq(ServerNote)]
    BY <2>2, <2>3
  <2> QED
    BY <1>1, <1>3, <2>4 DEF ServerEditsNote, Reaches
<1>4. CASE ServerDeletesNote(r)
  <2> DEFINE hit(x) == {i \in 1..Len(server[x]) : server[x][i].id = r.arg.noteID}
             k(x) == SelectInSeq(server[x], LAMBDA n : n.id = r.arg.noteID)
             list(x) == IF k(x) = 0 THEN server[x] ELSE RemoveAt(server[x], k(x))
  <2>1. server' = [x \in Account |-> list(x)]
    BY <1>4 DEF ServerDeletesNote
  <2>2. ASSUME NEW x \in Account PROVE list(x) \in Seq(ServerNote)
    <3>1. k(x) = IF hit(x) # {} THEN Min(hit(x)) ELSE 0
      BY DEF SelectInSeq
    <3>2. hit(x) \in SUBSET Nat /\ hit(x) \subseteq 1..Len(server[x])
      OBVIOUS
    <3> HIDE DEF k, hit
    <3>3. k(x) # 0 => k(x) \in 1..Len(server[x])
      BY <3>1, <3>2, MinIsMember
    <3> QED
      BY <1>1, <3>3, ShorterArray
  <2> HIDE DEF list
  <2>3. server' \in [Account -> Seq(ServerNote)]
    BY <2>1, <2>2
  <2> QED
    BY <1>1, <1>4, <2>3 DEF ServerDeletesNote, Reaches
<1>5. CASE ServerListsNotes(r)
  <2> DEFINE rows == IF r.owner \in Account THEN server[r.owner] ELSE <<>>
  <2>1. rows \in Seq(ServerNote)
    BY <1>1
  <2>2. ~r.done /\ Answer(r, 0, rows)
    BY <1>5 DEF ServerListsNotes, Reaches
  <2> HIDE DEF rows
  <2> QED
    BY <1>1, <1>5, <2>1, <2>2 DEF ServerListsNotes, remoteVars
<1>6. CASE ServerDeletesUser(r)
  BY <1>1, <1>6 DEF ServerDeletesUser, Reaches
<1>7. CASE ServerRegisters(r)
  BY <1>1, <1>7 DEF ServerRegisters, Reaches, remoteVars
<1> QED
  BY <1>2, <1>3, <1>4, <1>5, <1>6, <1>7

LEMMA ServerIsOK == LaunchInv /\ ServerStep /\ UNCHANGED chainVars => LaunchInv'
<1> SUFFICES ASSUME LaunchInv, UNCHANGED chainVars, NEW r \in net,
                    \/ ServerAddsNote(r) \/ ServerEditsNote(r) \/ ServerDeletesNote(r)
                    \/ ServerListsNotes(r) \/ ServerDeletesUser(r) \/ ServerRegisters(r)
             PROVE  LaunchInv'
  BY DEF ServerStep
<1>1. server' \in [Account -> Seq(ServerNote)] /\ nextID' \in Nat \ {0}
  BY ServerAnswers
<1>2. PICK id \in Nat, rows \in Seq(ServerNote) : ~r.done /\ Answer(r, id, rows)
  BY ServerAnswers
<1>3. NetOK' /\ ChainOK'
  BY <1>2, AnswerKeepsBarrier DEF LaunchInv
<1>4. UNCHANGED <<notes, queue, uid, nextObj, userData, running, overlay, online, left, phase>>
  BY <1>2 DEF Answer, storeVars, chainVars
<1>5. DeviceTypeOK' /\ ObjectsApart'
  BY <1>1, <1>3, <1>4 DEF LaunchInv, DeviceTypeOK, NetOK, ObjectsApart
<1>6. ~running' => net' = {} /\ phase' = "none"
  BY <1>4 DEF LaunchInv
<1> QED
  BY <1>3, <1>5, <1>6 DEF LaunchInv

---------------------------------------------------------------------------
(* The theorems.                                                           *)

\* A step that changes nothing keeps everything.
LEMMA StutterIsOK == LaunchInv /\ UNCHANGED launchVars => LaunchInv'
<1> SUFFICES ASSUME LaunchInv, UNCHANGED launchVars PROVE LaunchInv'
  OBVIOUS
<1>1. UNCHANGED <<notes, queue, uid, nextObj, server, nextID, userData, net, running,
                  overlay, online, left, phase, snapshot, indicesToRemove, group>>
  BY DEF launchVars, deviceVars, storeVars, remoteVars, chainVars
<1> QED
  BY <1>1 DEF LaunchInv, DeviceTypeOK, NetOK, ChainOK, ObjectsApart, Barrier, OffsetsSound,
              OneEach, InFlight

\* Every step of the chain's own keeps what is true whoever else is at work.
LEMMA ChainStepIsOK == LaunchInv /\ LaunchStep => LaunchInv'
<1>1. ASSUME LaunchInv, Notify PROVE LaunchInv'
  BY <1>1, NotifyIsOK
<1>2. ASSUME LaunchInv, NEW r \in net, LaunchRequestSucceeds(r) PROVE LaunchInv'
  BY <1>2, RequestSucceedsIsOK
<1>3. ASSUME LaunchInv, NEW r \in net, LaunchRequestFails(r) PROVE LaunchInv'
  BY <1>3, RequestFailsIsOK
<1>4. ASSUME LaunchInv, NEW r \in net, FetchSucceeds(r) PROVE LaunchInv'
  BY <1>4, FetchSucceedsIsOK
<1>5. ASSUME LaunchInv, NEW r \in net, FetchFails(r) PROVE LaunchInv'
  BY <1>5, FetchFailsIsOK
<1> QED
  BY <1>1, <1>2, <1>3, <1>4, <1>5 DEF LaunchStep

\* Each phase captures the queue it reads.
LEMMA PhasesCapture ==
  ASSUME NEW q
  PROVE  /\ postPendingUserNotes(q) => Captured(q)'
         /\ postEditedPendingData(q) => Captured(q)'
         /\ postDeletePendingData(q) => Captured(q)'
  BY DEF postPendingUserNotes, postEditedPendingData, postDeletePendingData, Drain, Idle,
         Captured, Kind

\* On its own, the chain is the only one to write a queue while it drains it.
LEMMA CapturedIsKept == LaunchInv /\ Captured(queue) /\ Next => Captured(queue)'
<1> SUFFICES ASSUME LaunchInv, Captured(queue), Next PROVE Captured(queue)'
  OBVIOUS
<1>1. CASE Launch
  <2>1. postDeletePendingData(queue) /\ queue' = queue
    BY <1>1 DEF Launch, storeVars
  <2> QED
    BY <2>1, PhasesCapture DEF Captured
<1>2. CASE NotifyDeletes \/ NotifyEdits
  <2>1. /\ queue' = Written
        /\ postEditedPendingData(Written) \/ postPendingUserNotes(Written)
    BY <1>2 DEF NotifyDeletes, NotifyEdits
  <2> DEFINE W == Written
  <2>2. queue' = W /\ (postEditedPendingData(W) \/ postPendingUserNotes(W))
    BY <2>1
  <2>3. \A q : (postEditedPendingData(q) \/ postPendingUserNotes(q)) => Captured(q)'
    BY PhasesCapture
  <2> QED
    BY <2>2, <2>3 DEF Captured
<1>3. CASE NotifyPosts \/ Kill
  BY <1>3 DEF NotifyPosts, Kill, Idle, Captured, Kind
<1>4. CASE UNCHANGED <<queue, phase, snapshot>>
  BY <1>4 DEF Captured
<1>5. \/ Launch \/ NotifyDeletes \/ NotifyEdits \/ NotifyPosts \/ Kill
      \/ UNCHANGED <<queue, phase, snapshot>>
  BY DEF Next, LaunchStep, Notify, LaunchRequestSucceeds, LaunchRequestFails, FetchSucceeds,
         FetchFails, ServerStep, ServerAddsNote, ServerEditsNote, ServerDeletesNote,
         ServerListsNotes, ServerDeletesUser, ServerRegisters, Answer, Flip, NetworkChanges,
         storeVars, chainVars
<1> QED
  BY <1>1, <1>2, <1>3, <1>4, <1>5

\* Every step of the chain, of the server and of the environment keeps the
\* invariant.
LEMMA StepIsOK == IInv /\ [Next]_launchVars => IInv'
<1> SUFFICES ASSUME IInv, [Next]_launchVars PROVE IInv'
  OBVIOUS
<1>1. LaunchInv /\ Captured(queue)
  BY DEF IInv
<1>2. LaunchInv'
  BY <1>1, LaunchIsOK, ChainStepIsOK, ServerIsOK, KillIsOK, FlipIsOK, StutterIsOK DEF Next
<1>3. Captured(queue)'
  <2>1. CASE Next
    BY <1>1, <2>1, CapturedIsKept
  <2>2. CASE UNCHANGED launchVars
    BY <1>1, <2>2 DEF Captured, launchVars, deviceVars, storeVars, chainVars
  <2> QED
    BY <2>1, <2>2
<1> QED
  BY <1>2, <1>3 DEF IInv

THEOREM InvariantHolds == Spec => []IInv
<1>1. Init => IInv
  BY InitIsOK DEF Init, IInv, Captured, Kind
<1>2. IInv /\ [Next]_launchVars => IInv'
  BY StepIsOK
<1> QED
  BY <1>1, <1>2, PTL DEF Spec

\* The local variables of the chain, the store, the service and the requests
\* in flight keep their types.
THEOREM TypeCorrect == Spec => []TypeOK
<1>1. IInv => TypeOK
  BY DEF IInv, LaunchInv, ChainOK, TypeOK
<1> QED
  BY <1>1, InvariantHolds, PTL

\* The DispatchGroup counts exactly the unanswered requests of the phase under
\* way: no notify block runs early, none is missed, and no phase overlaps the
\* next (postDeletePendingData, postEditedPendingData, postPendingUserNotes).
THEOREM BarrierHolds == Spec => []Barrier
<1>1. IInv => Barrier
  BY DEF IInv, LaunchInv, ChainOK
<1> QED
  BY <1>1, InvariantHolds, PTL

\* Array.remove(atOffsets:) never sees an offset outside the captured array,
\* and no offset is collected before its request is answered.
THEOREM OffsetsHold == Spec => []OffsetsSound
<1>1. IInv => OffsetsSound
  BY DEF IInv, LaunchInv, ChainOK
<1> QED
  BY <1>1, InvariantHolds, PTL

\* A queue that does not change keeps all its offsets.
LEMMA AllKept ==
  ASSUME NEW S, NEW s \in Seq(S)
  PROVE  \E kept \in SUBSET DOMAIN s :
            /\ Len(s) = Cardinality(kept)
            /\ \A i \in DOMAIN s : s[i] = s[Nth(kept, i)]
<1> DEFINE n == Len(s)
<1>1. n \in Nat /\ DOMAIN s = 1..n
  BY LenProperties
<1>2. IsFiniteSet(1..n) /\ Cardinality(1..n) = n
  BY <1>1, FS_Interval
<1> HIDE DEF n
<1>3. ASSUME NEW i \in 1..n PROVE Nth(1..n, i) = i
  <2>1. Nth(1..n, i) \in 1..n /\ Rank(1..n, Nth(1..n, i)) = i
    <3>1. 1..n \in SUBSET Nat /\ i \in 1..Cardinality(1..n)
      BY <1>1, <1>2
    <3> QED
      BY <1>2, <3>1, NthIsMember
  <2>2. ASSUME NEW m \in 1..n PROVE Rank(1..n, m) = m
    <3>1. {j \in 1..n : j <= m} = 1..m
      BY <1>1
    <3>2. Cardinality(1..m) = m
      BY <1>1, FS_Interval
    <3> QED
      BY <3>1, <3>2 DEF Rank
  <2> QED
    BY <2>1, <2>2
<1> QED
  BY <1>1, <1>2, <1>3 DEF n

\* A queue that is written back keeps the offsets not removed.
LEMMA SomeKept ==
  ASSUME NEW S, NEW s \in Seq(S), NEW I, NEW t, t = removeAtOffsets(s, I)
  PROVE  \E kept \in SUBSET DOMAIN s :
            /\ Len(t) = Cardinality(kept)
            /\ \A i \in DOMAIN t : t[i] = s[Nth(kept, i)]
<1>1. /\ Len(t) = Cardinality(Kept(s, I)) /\ DOMAIN t = 1..Len(t)
      /\ \A k \in 1..Len(t) : t[k] = s[Nth(Kept(s, I), k)]
  BY RemovalIsArray
<1>2. Kept(s, I) \in SUBSET (DOMAIN s)
  BY DEF Kept
<1> QED
  BY <1>1, <1>2

\* Whatever the answers and their order, what the chain leaves of a queue are
\* its own entries in their own order.
THEOREM QueuesKeepOrder == Spec => KeptInOrder
<1> DEFINE Left(s, t) == \E kept \in SUBSET DOMAIN s :
                           /\ Len(t) = Cardinality(kept)
                           /\ \A i \in DOMAIN t : t[i] = s[Nth(kept, i)]
<1>1. ASSUME IInv, Next, NEW k \in Kind PROVE Left(queue[k], queue'[k])
  <2>1. queue[k] \in Seq(Entry) /\ queue \in Queues
    BY <1>1, QueueOfKind DEF IInv, LaunchInv, DeviceTypeOK
  <2>2. CASE Notify /\ phase = k
    <3>1. queue' = [queue EXCEPT ![k] = removeAtOffsets(snapshot, indicesToRemove)]
      BY <2>2 DEF Notify, NotifyDeletes, NotifyEdits, NotifyPosts, Written
    <3>2. queue'[k] = removeAtOffsets(queue[k], indicesToRemove)
      BY <1>1, <2>1, <2>2, <3>1 DEF IInv, LaunchInv, Captured, Queues, Kind
    <3> QED
      BY <2>1, <3>2, SomeKept
  <2>3. CASE queue'[k] = queue[k]
    BY <2>1, <2>3, AllKept
  <2>4. queue'[k] = queue[k] \/ (Notify /\ phase = k)
    <3>1. CASE Notify
      BY <2>1, <3>1 DEF Notify, NotifyDeletes, NotifyEdits, NotifyPosts, Written, Queues, Kind
    <3>2. CASE ~Notify
      <4>1. queue' = queue
        BY <1>1, <3>2 DEF Next, LaunchStep, Launch, LaunchRequestSucceeds, LaunchRequestFails,
             FetchSucceeds, FetchFails, ServerStep, ServerAddsNote, ServerEditsNote,
             ServerDeletesNote, ServerListsNotes, ServerDeletesUser, ServerRegisters, Answer,
             Kill, ProcessEnds, Flip, NetworkChanges, storeVars
      <4> QED
        BY <4>1
    <3> QED
      BY <3>1, <3>2
  <2> QED
    BY <2>2, <2>3, <2>4
<1>2. IInv /\ [Next]_launchVars => [\A k \in Kind : Left(queue[k], queue'[k])]_launchVars
  BY <1>1
<1> QED
  BY <1>2, InvariantHolds, PTL DEF Spec, KeptInOrder

\* Stamping never overwrites a text with another as long as the pending notes
\* are numbered like their rows.
THEOREM StampingKeepsTexts == Spec => TextSurvivesStamping
<1> DEFINE TextsStay == \A i \in DOMAIN notes, j \in DOMAIN notes' :
                          notes[i].obj = notes'[j].obj => notes[i].text = notes'[j].text
<1>1. ASSUME IInv, Numbered, Next PROVE TextsStay
  <2>1. notes \in Seq(UserEntity) /\ ObjectsApart
    BY <1>1 DEF IInv, LaunchInv, DeviceTypeOK
  <2>2. CASE UNCHANGED notes
    BY <2>1, <2>2 DEF ObjectsApart
  <2>3. ASSUME NEW r \in net, LaunchRequestSucceeds(r) PROVE TextsStay
    <3>1. /\ DOMAIN notes' = DOMAIN notes
          /\ \A i \in DOMAIN notes :
               /\ notes'[i].obj = notes[i].obj
               /\ \/ notes'[i].text = notes[i].text
                  \/ /\ r.op = "post"
                     /\ i = getUserContextForDay(notes, r.arg.day)
                     /\ notes'[i].text = r.arg.text
      BY <1>1, <2>3, Stamping DEF IInv
    <3>2. ASSUME NEW i \in DOMAIN notes, r.op = "post",
                 i = getUserContextForDay(notes, r.arg.day)
          PROVE  notes[i].text = r.arg.text
      <4>1. r \in InFlight
        BY <2>3 DEF LaunchRequestSucceeds, Waiting, InFlight
      <4>2. r.arg = snapshot[r.idx] /\ r.idx \in DOMAIN snapshot
        BY <1>1, <4>1 DEF IInv, LaunchInv, ChainOK, Barrier
      <4>3. r.arg \in ToSet(snapshot)
        BY <4>2 DEF ToSet
      <4>4. "day" \in DOMAIN r.arg
        <5>1. r.arg \in PendingData
          BY <1>1, <3>2 DEF IInv, LaunchInv, NetOK, Items, Kind
        <5> QED
          BY <5>1 DEF PendingData
      <4>5. i # 0
        BY <2>1, LenProperties
      <4> QED
        BY <1>1, <3>2, <4>3, <4>4, <4>5 DEF Numbered
    <3>3. \A i \in DOMAIN notes : notes'[i].text = notes[i].text
      BY <3>1, <3>2
    <3> QED
      BY <2>1, <3>1, <3>3 DEF ObjectsApart
  <2>4. ASSUME NEW r \in net, FetchSucceeds(r) PROVE TextsStay
    <3>1. r.rows \in Seq(ServerNote)
      BY <1>1 DEF IInv, LaunchInv, NetOK, Request
    <3>2. notes' = syncLocalWithServer(notes, r.rows, nextObj) /\ nextObj \in Nat
      BY <1>1, <2>4 DEF FetchSucceeds, IInv, LaunchInv, DeviceTypeOK
    <3>3. CASE Len(r.rows) # Len(notes)
      <4>1. notes' = ResponseRows(r.rows, nextObj)
        BY <3>2, <3>3 DEF syncLocalWithServer
      <4>2. /\ notes' \in Seq(UserEntity)
            /\ \A j \in DOMAIN notes' : notes'[j].obj = nextObj + j - 1
        BY <3>1, <3>2, <4>1, ResponseRowsAreRows
      <4>3. \A j \in DOMAIN notes' : j \in Nat \ {0}
        BY <4>2, LenProperties
      <4>4. \A i \in DOMAIN notes : notes[i].obj \in Nat /\ notes[i].obj < nextObj
        <5>1. \A i \in DOMAIN notes : notes[i] \in UserEntity
          BY <2>1, LenProperties
        <5> QED
          BY <2>1, <5>1 DEF ObjectsApart, UserEntity
      <4> QED
        BY <3>2, <4>2, <4>3, <4>4
    <3>4. CASE Len(r.rows) = Len(notes)
      <4>1. notes' = updateLocalNoteIDs(notes, r.rows)
        BY <3>2, <3>4 DEF syncLocalWithServer
      <4>2. /\ DOMAIN notes' = DOMAIN notes
            /\ \A i \in DOMAIN notes : /\ notes'[i].obj = notes[i].obj
                                       /\ notes'[i].text = notes[i].text
        BY <2>1, <3>1, <4>1, IdentifiedRows
      <4> QED
        BY <2>1, <4>2 DEF ObjectsApart
    <3> QED
      BY <3>3, <3>4
  <2>5. \/ UNCHANGED notes
        \/ \E r \in net : LaunchRequestSucceeds(r) \/ FetchSucceeds(r)
    BY <1>1 DEF Next, LaunchStep, Launch, Notify, NotifyDeletes, NotifyEdits, NotifyPosts,
         LaunchRequestFails, FetchFails, ServerStep, ServerAddsNote, ServerEditsNote,
         ServerDeletesNote, ServerListsNotes, ServerDeletesUser, ServerRegisters, Answer,
         Kill, ProcessEnds, Flip, NetworkChanges, storeVars
  <2> QED
    BY <2>2, <2>3, <2>4, <2>5
<1>2. IInv /\ [Next]_launchVars => [Numbered => TextsStay]_launchVars
  BY <1>1
<1> QED
  BY <1>2, InvariantHolds, PTL DEF Spec, TextSurvivesStamping
---------------------------------------------------------------------------
(* What the server does to its notes.                                      *)

\* What the server holds are notes.
LEMMA NotesOfServer ==
  ASSUME DeviceTypeOK, NEW x \in Account
  PROVE  /\ server[x] \in Seq(ServerNote) /\ Len(server[x]) \in Nat
         /\ DOMAIN server[x] = 1 .. Len(server[x])
         /\ \A i \in DOMAIN server[x] : server[x][i].id \in Nat
<1>1. server[x] \in Seq(ServerNote)
  BY DEF DeviceTypeOK
<1>2. /\ Len(server[x]) \in Nat /\ DOMAIN server[x] = 1 .. Len(server[x])
      /\ \A i \in 1 .. Len(server[x]) : server[x][i] \in ServerNote
  BY <1>1, LenProperties
<1> QED
  BY <1>1, <1>2 DEF ServerNote

\* The server numbers its notes: no two of an account have the same id, and
\* the next one is new.
NotesApart ==
  \A x \in Account : \A i \in DOMAIN server[x] :
    /\ server[x][i].id < nextID
    /\ \A j \in DOMAIN server[x] : server[x][i].id = server[x][j].id => i = j

\* A note added takes none away, and is the only new one.
LEMMA NoteAdded ==
  ASSUME DeviceTypeOK, NotesApart, NEW r, ServerAddsNote(r)
  PROVE  /\ NotesApart' /\ nextID' = nextID + 1
         /\ \A x \in Account : \A i \in DOMAIN server[x] :
              i \in DOMAIN server'[x] /\ server'[x][i] = server[x][i]
         /\ r.owner \in Account =>
              \E i \in DOMAIN server'[r.owner] :
                server'[r.owner][i] = [id |-> nextID, text |-> r.arg.text]
         /\ \A m : OnServer(m)' => OnServer(m) \/ m = nextID
<1> DEFINE n == [id |-> nextID, text |-> r.arg.text]
           y == r.owner
<1>1. /\ server' = [server EXCEPT ![y] = Append(server[y], n)] /\ nextID' = nextID + 1
      /\ n.id = nextID
  BY DEF ServerAddsNote
<1>2. nextID \in Nat /\ server \in [Account -> Seq(ServerNote)]
  BY DEF DeviceTypeOK
<1> HIDE DEF n, y
\* Each note is one there was, or the one added after them.
<1>3. ASSUME NEW x \in Account
      PROVE  /\ \A i \in DOMAIN server[x] : i \in DOMAIN server'[x] /\ server'[x][i] = server[x][i]
             /\ \A i \in DOMAIN server'[x] :
                  \/ i \in DOMAIN server[x] /\ server'[x][i] = server[x][i]
                  \/ i = Len(server[x]) + 1 /\ server'[x][i] = n
             /\ x = y => /\ Len(server[x]) + 1 \in DOMAIN server'[x]
                         /\ server'[x][Len(server[x]) + 1] = n
  <2> DEFINE s == server[x]
  <2>1. s \in Seq(ServerNote) /\ Len(s) \in Nat /\ DOMAIN s = 1 .. Len(s)
    BY NotesOfServer
  <2>2. server'[x] = IF x = y THEN Append(s, n) ELSE s
    BY <1>1, <1>2
  <2> HIDE DEF s
  <2>3. /\ DOMAIN Append(s, n) = 1 .. Len(s) + 1
        /\ \A i \in 1 .. Len(s) + 1 : Append(s, n)[i] = IF i \in 1 .. Len(s) THEN s[i] ELSE n
    BY <2>1
  <2>4. \A i \in 1 .. Len(s) + 1 : i \in 1 .. Len(s) \/ i = Len(s) + 1
    BY <2>1
  <2>5. Len(s) + 1 \in 1 .. Len(s) + 1 /\ Len(s) + 1 \notin 1 .. Len(s)
    BY <2>1
  <2>6. \A i \in 1 .. Len(s) : i \in 1 .. Len(s) + 1
    BY <2>1
  <2> QED
    BY <2>1, <2>2, <2>3, <2>4, <2>5, <2>6 DEF s
<1>4. NotesApart'
  <2> SUFFICES ASSUME NEW x \in Account, NEW i \in DOMAIN server'[x]
               PROVE  /\ server'[x][i].id < nextID + 1
                      /\ \A j \in DOMAIN server'[x] :
                           server'[x][i].id = server'[x][j].id => i = j
    BY <1>1 DEF NotesApart
  <2>1. /\ \A k \in DOMAIN server[x] :
             server[x][k].id \in Nat /\ server[x][k].id < nextID
        /\ \A k, j \in DOMAIN server[x] : server[x][k].id = server[x][j].id => k = j
    BY NotesOfServer DEF NotesApart
  <2> QED
    BY <1>1, <1>2, <1>3, <2>1
<1>5. \A m : OnServer(m)' => OnServer(m) \/ m = nextID
  BY <1>1, <1>3 DEF OnServer
<1>6. r.owner \in Account => \E i \in DOMAIN server'[r.owner] : server'[r.owner][i] = n
  BY <1>3 DEF y
<1> QED
  BY <1>1, <1>3, <1>4, <1>5, <1>6 DEF n

\* A note edited keeps its id.
LEMMA NoteEdited ==
  ASSUME DeviceTypeOK, NotesApart, NEW r, ServerEditsNote(r)
  PROVE  /\ NotesApart' /\ nextID' = nextID
         /\ \A x \in Account :
              /\ DOMAIN server'[x] = DOMAIN server[x]
              /\ \A i \in DOMAIN server[x] :
                   /\ server'[x][i].id = server[x][i].id
                   /\ server[x][i].id = r.arg.noteID
                        => server'[x][i] = [id |-> r.arg.noteID, text |-> r.arg.text]
                   /\ server[x][i].id # r.arg.noteID => server'[x][i] = server[x][i]
         /\ \A m : OnServer(m)' => OnServer(m)
<1> DEFINE id == r.arg.noteID
           text == r.arg.text
<1>1. nextID' = nextID
  BY DEF ServerEditsNote
<1>2. \A x \in Account :
        /\ DOMAIN server'[x] = DOMAIN server[x]
        /\ \A i \in DOMAIN server[x] :
             /\ server'[x][i].id = server[x][i].id
             /\ server[x][i].id = id => server'[x][i] = [id |-> id, text |-> text]
             /\ server[x][i].id # id => server'[x][i] = server[x][i]
  <2> SUFFICES ASSUME NEW x \in Account
               PROVE  /\ DOMAIN server'[x] = DOMAIN server[x]
                      /\ \A i \in DOMAIN server[x] :
                           /\ server'[x][i].id = server[x][i].id
                           /\ server[x][i].id = id => server'[x][i] = [id |-> id, text |-> text]
                           /\ server[x][i].id # id => server'[x][i] = server[x][i]
    OBVIOUS
  <2>1. server'[x] = [i \in DOMAIN server[x] |->
                        IF server[x][i].id = id THEN [server[x][i] EXCEPT !.text = text]
                                                ELSE server[x][i]]
    BY DEF ServerEditsNote
  <2>2. \A i \in DOMAIN server[x] : server[x][i] \in ServerNote
    BY NotesOfServer, LenProperties
  <2> HIDE DEF id, text
  <2> QED
    BY <2>1, <2>2 DEF ServerNote
<1>3. NotesApart'
  BY <1>1, <1>2 DEF NotesApart
<1> QED
  BY <1>1, <1>2, <1>3 DEF OnServer

\* A note deleted is gone, for no other has its id.
LEMMA NoteDeleted ==
  ASSUME DeviceTypeOK, NotesApart, NEW r, ServerDeletesNote(r)
  PROVE  /\ NotesApart' /\ nextID' = nextID
         /\ \A m : OnServer(m)' => OnServer(m) /\ m # r.arg.noteID
<1> DEFINE id == r.arg.noteID
           hit(x) == {i \in 1..Len(server[x]) : server[x][i].id = id}
           k(x) == SelectInSeq(server[x], LAMBDA n : n.id = id)
           list(x) == IF k(x) = 0 THEN server[x] ELSE RemoveAt(server[x], k(x))
<1>1. server' = [x \in Account |-> list(x)] /\ nextID' = nextID
  BY DEF ServerDeletesNote
<1>2. ASSUME NEW x \in Account
      PROVE  \/ server'[x] = server[x] /\ \A i \in DOMAIN server[x] : server[x][i].id # id
             \/ \E p \in DOMAIN server[x] :
                  server[x][p].id = id /\ server'[x] = RemoveAt(server[x], p)
  <2>1. k(x) = IF hit(x) # {} THEN Min(hit(x)) ELSE 0
    BY DEF SelectInSeq
  <2>2. hit(x) \in SUBSET Nat /\ DOMAIN server[x] = 1 .. Len(server[x])
    BY NotesOfServer
  <2>3. \A i : i \in hit(x) <=> i \in DOMAIN server[x] /\ server[x][i].id = id
    BY <2>2
  <2>4. server'[x] = IF k(x) = 0 THEN server[x] ELSE RemoveAt(server[x], k(x))
    BY <1>1
  <2> HIDE DEF k, hit, list
  <2>5. CASE hit(x) = {}
    BY <2>1, <2>3, <2>4, <2>5
  <2>6. CASE hit(x) # {}
    <3>1. k(x) \in hit(x) /\ k(x) # 0
      BY <2>1, <2>2, <2>3, <2>6, MinIsMember, NotesOfServer
    <3> QED
      BY <2>3, <2>4, <3>1
  <2> QED
    BY <2>5, <2>6
<1> HIDE DEF id, hit, k, list
\* Each note left is one there was, and the one deleted is not left.
<1>3. ASSUME NEW x \in Account
      PROVE  \E from \in [DOMAIN server'[x] -> DOMAIN server[x]] :
               /\ \A i \in DOMAIN server'[x] : /\ server'[x][i] = server[x][from[i]]
                                               /\ server[x][from[i]].id # id
               /\ \A i, j \in DOMAIN server'[x] : from[i] = from[j] => i = j
  <2>1. CASE server'[x] = server[x] /\ \A i \in DOMAIN server[x] : server[x][i].id # id
    <3> DEFINE from == [i \in DOMAIN server'[x] |-> i]
    <3>1. from \in [DOMAIN server'[x] -> DOMAIN server[x]]
      BY <2>1
    <3>2. \A i \in DOMAIN server'[x] : /\ server'[x][i] = server[x][from[i]]
                                      /\ server[x][from[i]].id # id
      BY <2>1
    <3>3. \A i, j \in DOMAIN server'[x] : from[i] = from[j] => i = j
      OBVIOUS
    <3> HIDE DEF from
    <3> QED
      BY <3>1, <3>2, <3>3
  <2>2. ASSUME NEW p \in DOMAIN server[x], server[x][p].id = id,
               server'[x] = RemoveAt(server[x], p)
        PROVE  \E from \in [DOMAIN server'[x] -> DOMAIN server[x]] :
                 /\ \A i \in DOMAIN server'[x] : /\ server'[x][i] = server[x][from[i]]
                                                 /\ server[x][from[i]].id # id
                 /\ \A i, j \in DOMAIN server'[x] : from[i] = from[j] => i = j
    <3> DEFINE from == [i \in DOMAIN server'[x] |-> IF i < p THEN i ELSE i + 1]
    <3>1. p \in Nat /\ p \in 1 .. Len(server[x]) /\ server[x] \in Seq(ServerNote)
      BY NotesOfServer
    <3>2. \A i \in DOMAIN server'[x] :
            /\ i \in Nat
            /\ \/ i < p /\ i \in DOMAIN server[x] /\ server'[x][i] = server[x][i]
               \/ i >= p /\ i + 1 \in DOMAIN server[x] /\ server'[x][i] = server[x][i + 1]
      BY <2>2, <3>1, ShorterElements
    <3>3. \A i \in DOMAIN server'[x] :
            from[i] \in DOMAIN server[x] /\ from[i] # p /\ server'[x][i] = server[x][from[i]]
      BY <3>1, <3>2
    <3>4. \A i, j \in DOMAIN server'[x] : from[i] = from[j] => i = j
      BY <3>1, <3>2
    <3>5. from \in [DOMAIN server'[x] -> DOMAIN server[x]]
      BY <3>3
    <3>6. \A m \in DOMAIN server[x] : m # p => server[x][m].id # id
      BY <2>2 DEF NotesApart
    <3> HIDE DEF from
    <3> QED
      BY <3>3, <3>4, <3>5, <3>6
  <2> QED
    BY <1>2, <2>1, <2>2
<1>4. \A m : OnServer(m)' => OnServer(m) /\ m # id
  <2> SUFFICES ASSUME NEW m, OnServer(m)' PROVE OnServer(m) /\ m # id
    OBVIOUS
  <2>1. PICK x \in Account : \E i \in DOMAIN server'[x] : server'[x][i].id = m
    BY DEF OnServer
  <2>2. PICK i \in DOMAIN server'[x] : server'[x][i].id = m
    BY <2>1
  <2>3. PICK from \in [DOMAIN server'[x] -> DOMAIN server[x]] :
          server'[x][i] = server[x][from[i]] /\ server[x][from[i]].id # id
    BY <1>3
  <2> QED
    BY <2>2, <2>3 DEF OnServer
<1>5. NotesApart'
  <2> SUFFICES ASSUME NEW x \in Account
               PROVE  \A i \in DOMAIN server'[x] :
                        /\ server'[x][i].id < nextID
                        /\ \A j \in DOMAIN server'[x] :
                             server'[x][i].id = server'[x][j].id => i = j
    BY <1>1 DEF NotesApart
  <2>1. PICK from \in [DOMAIN server'[x] -> DOMAIN server[x]] :
          /\ \A i \in DOMAIN server'[x] : server'[x][i] = server[x][from[i]]
          /\ \A i, j \in DOMAIN server'[x] : from[i] = from[j] => i = j
    BY <1>3
  <2> QED
    BY <2>1 DEF NotesApart
<1> QED
  BY <1>1, <1>4, <1>5 DEF id

=============================================================================
