---------------------------- MODULE WidgetProofs ----------------------------
(***************************************************************************)
(* Streak and week as the phone computes them and as the widgets show      *)
(* them, for any days, any number of posts and of changes that the widgets *)
(* are not told of.                                                        *)
(***************************************************************************)
EXTENDS Widget, Functions, TLAPS, FiniteSetTheorems, SequenceTheorems

(***************************************************************************)
(* The queries by date, for every sequence of dates: how far the streak's  *)
(* loop goes back, what midnight does to it, which days the week has.      *)
(***************************************************************************)

\* A non-empty set of naturals has a least element, the one Min chooses.
LEMMA MinIsLeast ==
  ASSUME NEW T \in SUBSET Nat, T # {}
  PROVE  /\ Min(T) \in T
         /\ \A y \in T : Min(T) <= y
<1>1. \E x \in T : \A y \in T : ~ (<<y, x>> \in OpToRel(<, Nat))
  BY NatLessThanWellFounded, WFMin
<1>2. PICK x \in T : \A y \in T : ~ (y < x)
  BY <1>1 DEF OpToRel
<1>3. \A y \in T : x <= y
  BY <1>2
<1> QED
  BY <1>3 DEF Min

\* A non-empty set of numbers that has a lower and an upper bound has a
\* greatest element, the one Max chooses.
LEMMA MaxIsGreatest ==
  ASSUME NEW low \in Int, NEW high \in Int, NEW T \in SUBSET (low .. high), T # {}
  PROVE  /\ Max(T) \in T
         /\ \A y \in T : y <= Max(T)
<1> DEFINE D == {high - y : y \in T}
<1>1. D \in SUBSET Nat /\ D # {}
  OBVIOUS
<1>2. Min(D) \in D /\ \A z \in D : Min(D) <= z
  BY <1>1, MinIsLeast
<1>3. PICK x \in T : Min(D) = high - x
  BY <1>2
<1>4. \A y \in T : x >= y
  BY <1>2, <1>3
<1> QED
  BY <1>4 DEF Max

(***************************************************************************)
(* The streak.                                                             *)
(***************************************************************************)

\* The loop ends: not every day before today has a note, as many as there are.
LEMMA LoopEnds ==
  ASSUME NEW dates \in Seq(Int), NEW now \in Int
  PROVE  \E k \in 0 .. Len(dates) : ~isDateExist(dates, now - 1 - k)
<1> SUFFICES ASSUME \A k \in 0 .. Len(dates) : isDateExist(dates, now - 1 - k)
             PROVE  FALSE
  OBVIOUS
<1> DEFINE n == Len(dates)
           f == [k \in 0 .. n |-> CHOOSE i \in 1 .. n : dates[i] = now - 1 - k]
<1>1. n \in Nat /\ DOMAIN dates = 1 .. n
  BY LenProperties
<1>2. \A k \in 0 .. n : f[k] \in 1 .. n /\ dates[f[k]] = now - 1 - k
  BY <1>1 DEF isDateExist
<1>3. f \in [0 .. n -> 1 .. n]
  BY <1>2
<1> HIDE DEF f, n
<1>4. /\ IsFiniteSet(0 .. n) /\ Cardinality(0 .. n) = n + 1
      /\ IsFiniteSet(1 .. n) /\ Cardinality(1 .. n) = n
  BY <1>1, FS_Interval
<1>5. /\ IsFiniteSet(0 .. n) /\ IsFiniteSet(1 .. n)
      /\ Cardinality(1 .. n) < Cardinality(0 .. n)
  BY <1>1, <1>4
<1>6. PICK x, y \in 0 .. n : x # y /\ f[x] = f[y]
  BY <1>3, <1>5, FS_PigeonHole
<1> QED
  BY <1>1, <1>2, <1>6

\* What the loop counts: days with a note, up to one without.
LEMMA DaysBackCounts ==
  ASSUME NEW dates \in Seq(Int), NEW now \in Int
  PROVE  /\ DaysBack(dates, now) \in Nat
         /\ ~isDateExist(dates, now - 1 - DaysBack(dates, now))
         /\ \A j \in 0 .. DaysBack(dates, now) - 1 : isDateExist(dates, now - 1 - j)
<1> DEFINE K == {k \in 0 .. Len(dates) : ~isDateExist(dates, now - 1 - k)}
<1>1. Len(dates) \in Nat
  BY LenProperties
<1>2. K # {}
  BY LoopEnds
<1>3. K \in SUBSET Nat
  BY <1>1
<1>4. DaysBack(dates, now) = Min(K)
  BY DEF DaysBack
<1>5. Min(K) \in K /\ \A y \in K : Min(K) <= y
  BY <1>2, <1>3, MinIsLeast
<1>6. \A j \in 0 .. Min(K) - 1 : j \in 0 .. Len(dates) /\ j \notin K
  BY <1>1, <1>5
<1> QED
  BY <1>3, <1>4, <1>5, <1>6

\* No other number does.
LEMMA DaysBackIs ==
  ASSUME NEW dates \in Seq(Int), NEW now \in Int, NEW n \in Nat,
         ~isDateExist(dates, now - 1 - n),
         \A j \in 0 .. n - 1 : isDateExist(dates, now - 1 - j)
  PROVE  DaysBack(dates, now) = n
<1> DEFINE m == DaysBack(dates, now)
<1>1. /\ m \in Nat /\ ~isDateExist(dates, now - 1 - m)
      /\ \A j \in 0 .. m - 1 : isDateExist(dates, now - 1 - j)
  BY DaysBackCounts
<1> HIDE DEF m
<1>2. ~(n \in 0 .. m - 1) /\ ~(m \in 0 .. n - 1)
  BY <1>1
<1>3. n = m
  BY <1>1, <1>2
<1> QED
  BY <1>3 DEF m

\* Midnight, as long as no note is of tomorrow: the streak is judged by the
\* day that ends.
LEMMA StreakOverMidnight ==
  ASSUME NEW dates \in Seq(Int), NEW now \in Int, ~isDateExist(dates, now + 1)
  PROVE  calculateStreak(dates, now + 1)
           = IF isDateExist(dates, now) THEN calculateStreak(dates, now) ELSE 0
<1> DEFINE n == DaysBack(dates, now)
<1>1. n \in Nat /\ (~isDateExist(dates, now - 1 - n))
      /\ \A j \in 0 .. n - 1 : isDateExist(dates, now - 1 - j)
  BY DaysBackCounts
<1> HIDE DEF n
<1>2. CASE isDateExist(dates, now)
  <2>1. ~isDateExist(dates, (now + 1) - 1 - (n + 1))
    <3>1. (now + 1) - 1 - (n + 1) = now - 1 - n
      BY <1>1
    <3> QED
      BY <1>1, <3>1
  <2>2. \A j \in 0 .. (n + 1) - 1 : isDateExist(dates, (now + 1) - 1 - j)
    <3> TAKE j \in 0 .. (n + 1) - 1
    <3>1. CASE j = 0
      <4>1. (now + 1) - 1 - j = now
        BY <3>1
      <4> QED
        BY <1>2, <4>1
    <3>2. CASE j # 0
      <4>1. j - 1 \in 0 .. n - 1 /\ (now + 1) - 1 - j = now - 1 - (j - 1)
        BY <1>1, <3>2
      <4> QED
        BY <1>1, <4>1
    <3> QED
      BY <3>1, <3>2
  <2>3. n + 1 \in Nat /\ now + 1 \in Int
    BY <1>1
  <2>4. DaysBack(dates, now + 1) = n + 1
    BY <2>1, <2>2, <2>3, DaysBackIs
  <2> QED
    BY <1>1, <1>2, <2>4 DEF calculateStreak, n
<1>3. CASE ~isDateExist(dates, now)
  <2>1. (now + 1) - 1 - 0 = now
    OBVIOUS
  <2>2. DaysBack(dates, now + 1) = 0
    BY <1>3, <2>1, DaysBackIs
  <2> QED
    BY <1>3, <2>2 DEF calculateStreak
<1> QED
  BY <1>2, <1>3

\* The streak counts the days of a run: those from each of which on every day
\* has a note, today excepted.
LEMMA StreakCountsARun ==
  ASSUME NEW dates \in Seq(Int), NEW now \in Int, \A i \in DOMAIN dates : dates[i] <= now
  PROVE  calculateStreak(dates, now) =
           Cardinality({d \in Range(dates) : \A e \in d .. now - 1 : e \in Range(dates)})
<1> DEFINE n == DaysBack(dates, now)
           last == IF isDateExist(dates, now) THEN now ELSE now - 1
           run == {d \in Range(dates) : \A e \in d .. now - 1 : e \in Range(dates)}
<1>1. n \in Nat /\ (~isDateExist(dates, now - 1 - n))
      /\ \A j \in 0 .. n - 1 : isDateExist(dates, now - 1 - j)
  BY DaysBackCounts
<1>2. \A d : isDateExist(dates, d) <=> d \in Range(dates)
  BY DEF isDateExist, Range
<1>3. \A d \in Range(dates) : d \in Int /\ d <= now
  BY LenProperties DEF Range
<1> HIDE DEF n
<1>4. \A e \in now - n .. now - 1 : e \in Range(dates)
  <2> TAKE e \in now - n .. now - 1
  <2>1. now - 1 - e \in 0 .. n - 1 /\ now - 1 - (now - 1 - e) = e
    BY <1>1
  <2> QED
    BY <1>1, <1>2, <2>1
<1>5. ASSUME NEW d \in run
      PROVE  d \in now - n .. last
  <2>1. ~(d <= now - 1 - n)
    BY <1>1, <1>2, <1>3
  <2> QED
    BY <1>1, <1>2, <1>3, <2>1
<1>6. ASSUME NEW d \in now - n .. last
      PROVE  d \in run
  <2>1. CASE d = now
    BY <1>2, <2>1
  <2>2. CASE d # now
    <3>1. d \in now - n .. now - 1
      BY <1>1, <2>2
    <3> QED
      BY <1>1, <1>4, <3>1
  <2> QED
    BY <2>1, <2>2
<1>7. run = now - n .. last
  BY <1>5, <1>6
<1>8. last \in Int /\ now - n \in Int
  BY <1>1
<1>9. Cardinality(run) = IF now - n > last THEN 0 ELSE last - (now - n) + 1
  BY <1>7, <1>8, FS_Interval
<1>10. Cardinality(run) = (IF isDateExist(dates, now) THEN 1 ELSE 0) + n
  BY <1>1, <1>9
<1> QED
  BY <1>10 DEF calculateStreak, n

\* A streak is no longer than the days there were.
LEMMA StreakIsBounded ==
  ASSUME NEW first \in Int, NEW now \in Int, first <= now, NEW dates \in Seq(first .. now)
  PROVE  calculateStreak(dates, now) \in 0 .. now - first + 1
<1> DEFINE n == DaysBack(dates, now)
<1>1. dates \in Seq(Int)
  BY SeqMonotonic
<1>2. n \in Nat /\ \A j \in 0 .. n - 1 : isDateExist(dates, now - 1 - j)
  BY <1>1, DaysBackCounts
<1> HIDE DEF n
<1>3. CASE n = 0
  BY <1>3 DEF calculateStreak, n
<1>4. CASE n # 0
  <2>1. isDateExist(dates, now - 1 - (n - 1))
    BY <1>2, <1>4
  <2>2. now - 1 - (n - 1) >= first
    BY <2>1, LenProperties DEF isDateExist
  <2> QED
    BY <1>2, <2>2 DEF calculateStreak, n
<1> QED
  BY <1>3, <1>4

(***************************************************************************)
(* The week.                                                               *)
(***************************************************************************)

\* Where weeks start on Sunday the seven days are those from Sunday to
\* Saturday, today among them.
LEMMA WeekFromSunday ==
  ASSUME NEW dates, NEW now \in Int
  PROVE  LET week == getCurrentWeekData(dates, now, 1)
         IN  /\ \A i \in 1..7 : weekday(week[i].date) = i
             /\ \E i \in 1..7 : week[i].date = now
<1> DEFINE week == getCurrentWeekData(dates, now, 1)
<1>1. startOfWeek(now, 1) = now - ((now + 4) % 7)
  BY DEF startOfWeek, Remainder, weekday
<1>2. \A i \in 1..7 : week[i].date = now - ((now + 4) % 7) + i - 1
  BY <1>1 DEF getCurrentWeekData
<1>3. \A i \in 1..7 : weekday(week[i].date) = i
  BY <1>2 DEF weekday
<1>4. week[((now + 4) % 7) + 1].date = now
  BY <1>2
<1> QED
  BY <1>3, <1>4

(***************************************************************************)
(* What the rows and the week are.                                         *)
(***************************************************************************)

\* No note is of a day to come.
LEMMA RowsAreDays ==
  ASSUME WidgetTypeOK
  PROVE  /\ today \in Int /\ rows \in Seq(FirstDay .. today) /\ rows \in Seq(Int)
         /\ Range(rows) \subseteq FirstDay .. today
         /\ \A i \in DOMAIN rows : rows[i] <= today
         /\ \A d : isDateExist(rows, d) <=> d \in Range(rows)
<1>1. today \in Int /\ rows \in Seq(FirstDay .. today) /\ FirstDay .. today \subseteq Int
  BY DayAssumption DEF WidgetTypeOK
<1>2. rows \in Seq(Int)
  BY <1>1, SeqMonotonic
<1>3. \A i \in DOMAIN rows : rows[i] \in FirstDay .. today
  BY <1>1, LenProperties
<1>4. \A i \in DOMAIN rows : rows[i] <= today
  BY <1>1, <1>3, DayAssumption
<1> QED
  BY <1>1, <1>2, <1>3, <1>4 DEF Range, isDateExist

\* The week has its seven days, and marks those with a note.
LEMMA WeekIsMarked ==
  ASSUME WidgetTypeOK
  PROVE  LET week == getCurrentWeekData(rows, today, firstWeekday)
         IN  /\ week \in Week
             /\ \A i \in DOMAIN week : week[i].hasNote <=> week[i].date \in Range(rows)
<1> DEFINE start == startOfWeek(today, firstWeekday)
<1>1. start \in Int
  BY RowsAreDays, WeekdayAssumption DEF startOfWeek, Remainder, weekday
<1>2. \A d : isDateExist(rows, d) \in BOOLEAN /\ (isDateExist(rows, d) <=> d \in Range(rows))
  BY RowsAreDays DEF isDateExist
<1> HIDE DEF start
<1>3. getCurrentWeekData(rows, today, firstWeekday)
        = [i \in 1..7 |-> [date |-> start + i - 1, hasNote |-> isDateExist(rows, start + i - 1)]]
  BY DEF getCurrentWeekData, start
<1> QED
  BY <1>1, <1>2, <1>3 DEF Week

\* What the app leaves for the widgets is of the right type, and of no day to
\* come.
LEMMA SavedIsTyped ==
  ASSUME WidgetTypeOK
  PROVE  /\ calculateStreak(rows, today) \in 0 .. LastDay - FirstDay + 1
         /\ saveUserData \in Defaults /\ saveUserData.noteDate <= today
<1>1. calculateStreak(rows, today) \in 0 .. LastDay - FirstDay + 1
  <2>1. calculateStreak(rows, today) \in 0 .. today - FirstDay + 1
    BY RowsAreDays, StreakIsBounded, DayAssumption DEF WidgetTypeOK
  <2> QED
    BY <2>1, DayAssumption DEF WidgetTypeOK
<1> DEFINE newest == IF rows = <<>> THEN NoDate ELSE Max(Range(rows))
<1>2. newest \in {NoDate} \cup FirstDay .. today
  <2>1. CASE rows = <<>>
    BY <2>1
  <2>2. CASE rows # <<>>
    <3>1. Range(rows) # {}
      BY <2>2, RowsAreDays, LenProperties, EmptySeq DEF Range
    <3>2. FirstDay \in Int /\ today \in Int /\ Range(rows) \in SUBSET (FirstDay .. today)
      BY RowsAreDays, DayAssumption
    <3>3. Max(Range(rows)) \in Range(rows)
      BY <3>1, <3>2, MaxIsGreatest
    <3> QED
      BY <2>2, <3>3, RowsAreDays
  <2> QED
    BY <2>1, <2>2
<1>3. newest \in {NoDate} \cup FirstDay .. LastDay /\ newest <= today
  BY <1>2, DayAssumption DEF NoDate, WidgetTypeOK
<1>4. saveUserData = [noteDate |-> newest, streak |-> calculateStreak(rows, today),
                      week |-> getCurrentWeekData(rows, today, firstWeekday)]
  BY DEF saveUserData
<1> HIDE DEF newest
<1> QED
  BY <1>1, <1>3, <1>4, WeekIsMarked DEF Defaults

\* A note more.
LEMMA RowsAppended ==
  ASSUME WidgetTypeOK, NEW day \in FirstDay .. today
  PROVE  /\ Append(rows, day) \in Seq(FirstDay .. today)
         /\ Range(Append(rows, day)) = Range(rows) \cup {day}
<1>1. rows \in Seq(FirstDay .. today) /\ Len(rows) \in Nat /\ DOMAIN rows = 1 .. Len(rows)
  BY RowsAreDays, LenProperties
<1>2. /\ Append(rows, day) \in Seq(FirstDay .. today)
      /\ DOMAIN Append(rows, day) = 1 .. Len(rows) + 1
      /\ \A i \in 1 .. Len(rows) : Append(rows, day)[i] = rows[i]
      /\ Append(rows, day)[Len(rows) + 1] = day
  BY <1>1, AppendProperties
<1> QED
  BY <1>1, <1>2 DEF Range

\* A note less.
LEMMA RowsRemoved ==
  ASSUME WidgetTypeOK, NEW i \in DOMAIN rows
  PROVE  RemoveAt(rows, i) \in Seq(FirstDay .. today)
<1>1. /\ rows \in Seq(FirstDay .. today) /\ Len(rows) \in Nat /\ i \in 1 .. Len(rows)
      /\ \A k \in 1 .. Len(rows) : rows[k] \in FirstDay .. today
  BY RowsAreDays, LenProperties
<1>2. SubSeq(rows, 1, i - 1) \in Seq(FirstDay .. today)
  BY <1>1, SubSeqProperties
<1>3. SubSeq(rows, i + 1, Len(rows)) \in Seq(FirstDay .. today)
  BY <1>1, SubSeqProperties
<1> QED
  BY <1>2, <1>3, ConcatProperties DEF RemoveAt

(***************************************************************************)
(* Types.                                                                  *)
(***************************************************************************)

LEMMA TypeStep ==
  ASSUME WidgetTypeOK, [WidgetNext]_widgetVars
  PROVE  WidgetTypeOK'
<1> USE DayAssumption, LimitAssumption
<1>1. CASE SplashShown
  BY <1>1, SavedIsTyped DEF WidgetTypeOK, SplashShown
<1>2. CASE startBTNtapped
  BY <1>2 DEF WidgetTypeOK, startBTNtapped
<1>3. CASE AppEnds
  BY <1>3 DEF WidgetTypeOK, AppEnds
<1>4. CASE addNewLineBTNtapped
  BY <1>4 DEF WidgetTypeOK, addNewLineBTNtapped
<1>5. CASE closeBTNtapped
  BY <1>5 DEF WidgetTypeOK, closeBTNtapped
<1>6. CASE postBTNtapped
  <2>1. shared' \in Defaults
    BY <1>6, SavedIsTyped, WeekIsMarked DEF postBTNtapped, Defaults, WidgetTypeOK
  <2> QED
    BY <1>6, <2>1 DEF WidgetTypeOK, postBTNtapped
<1>7. CASE addNote
  <2>1. rows' \in Seq(FirstDay .. today) /\ today' = today
    BY <1>7, RowsAppended DEF addNote, WidgetTypeOK
  <2>2. calculateStreak(rows', today) \in 0 .. today - FirstDay + 1
    BY <2>1, StreakIsBounded DEF WidgetTypeOK
  <2>3. calculateStreak(rows', today) \in 0 .. LastDay - FirstDay + 1
    BY <2>2 DEF WidgetTypeOK
  <2>4. shared' = [shared EXCEPT !.streak = calculateStreak(rows', today)]
    BY <1>7, <2>1 DEF addNote
  <2>5. shared' \in Defaults
    BY <2>3, <2>4 DEF Defaults, WidgetTypeOK
  <2> QED
    BY <1>7, <2>1, <2>5 DEF WidgetTypeOK, addNote
<1>8. ASSUME NEW i \in DOMAIN rows, deleteItem(i)
      PROVE  WidgetTypeOK'
  BY <1>8, RowsRemoved DEF WidgetTypeOK, deleteItem, Untold
<1>9. ASSUME NEW day \in FirstDay .. today, NoteFetched(day)
      PROVE  WidgetTypeOK'
  BY <1>9, RowsAppended DEF WidgetTypeOK, NoteFetched, Untold
<1>10. CASE EmptyThePhone
  <2>1. <<>> \in Seq(FirstDay .. today)
    BY EmptySeq
  <2>2. rows' \in Seq(FirstDay .. today')
    BY <1>10, <2>1, Zenon DEF EmptyThePhone
  <2>3. untold' \in 0 .. UntoldLimit
    BY <1>10 DEF WidgetTypeOK, EmptyThePhone, Untold
  <2>4. /\ UNCHANGED <<today, adding, shared, timeline, added>>
        /\ started' = FALSE /\ visible' = "welcome"
    BY <1>10 DEF EmptyThePhone
  <2> QED
    BY <2>2, <2>3, <2>4 DEF WidgetTypeOK
<1>11. CASE getTimeline
  BY <1>11 DEF WidgetTypeOK, getTimeline
<1>12. CASE Midnight
  <2>1. FirstDay .. today \subseteq FirstDay .. today' /\ today' \in FirstDay .. LastDay
    BY <1>12 DEF WidgetTypeOK, Midnight
  <2>2. rows' \in Seq(FirstDay .. today')
    BY <1>12, <2>1, SeqMonotonic DEF WidgetTypeOK, Midnight
  <2> QED
    BY <1>12, <2>1, <2>2 DEF WidgetTypeOK, Midnight
<1>13. CASE UNCHANGED widgetVars
  BY <1>13 DEF WidgetTypeOK, widgetVars
<1> QED
  BY <1>1, <1>2, <1>3, <1>4, <1>5, <1>6, <1>7, <1>8, <1>9, <1>10, <1>11, <1>12, <1>13
     DEF WidgetNext

LEMMA TypeInit == WidgetInit => WidgetTypeOK
<1>1. <<>> \in Seq(FirstDay .. FirstDay)
  BY EmptySeq
<1>2. [noteDate |-> NoDate, streak |-> 0, week |-> <<>>] \in Defaults
  BY DayAssumption DEF Defaults
<1>3. WidgetInit => rows \in Seq(FirstDay .. today)
  BY <1>1, Zenon DEF WidgetInit
<1>4. WidgetInit => shared \in Defaults /\ timeline \in Defaults
  BY <1>2, Zenon DEF WidgetInit
<1>5. WidgetInit =>
        /\ today \in FirstDay .. LastDay /\ visible = "closed" /\ started = FALSE
        /\ added \in 0 .. NoteLimit /\ adding \in 0 .. added /\ untold \in 0 .. UntoldLimit
  BY DayAssumption, LimitAssumption DEF WidgetInit
<1> QED
  BY <1>3, <1>4, <1>5 DEF WidgetTypeOK

\* Every reachable state is well typed: no row is of a day to come, and what
\* the widgets read is a date, a streak no longer than the days there were,
\* and seven days or none.
THEOREM WidgetTypeCorrect == WidgetSpec => []WidgetTypeOK
  BY TypeInit, TypeStep, PTL DEF WidgetSpec

(***************************************************************************)
(* Streak and week of the phone.                                           *)
(***************************************************************************)

\* The streak is the number of days up to today from each of which on every
\* day has a note, today excepted (StreakIsTheRun).
THEOREM StreakIsAlwaysTheRun == WidgetSpec => []StreakIsTheRun
<1>1. WidgetTypeOK => StreakIsTheRun
  BY RowsAreDays, StreakCountsARun DEF StreakIsTheRun
<1> QED
  BY <1>1, WidgetTypeCorrect, PTL

\* Where weeks start on Sunday, the week's columns are those of the widget and
\* today is among them (SundayFirst).
THEOREM WeekStartsOnSunday ==
  ASSUME firstWeekday = 1
  PROVE  WidgetSpec => []SundayFirst
<1>1. WidgetTypeOK => SundayFirst
  BY RowsAreDays, WeekFromSunday DEF SundayFirst
<1> QED
  BY <1>1, WidgetTypeCorrect, PTL

\* Midnight ends a streak if the day had no note, and only then, for notes
\* written in any order and on any days (MidnightJudgesTheDay).
THEOREM MidnightIsTheJudge == WidgetSpec => MidnightJudgesTheDay
<1>1. ASSUME WidgetTypeOK, [WidgetNext]_widgetVars, today' > today
      PROVE  calculateStreak(rows', today')
               = IF today \in Range(rows) THEN calculateStreak(rows, today) ELSE 0
  <2>1. today' = today + 1 /\ rows' = rows
    BY <1>1 DEF WidgetNext, widgetVars, SplashShown, startBTNtapped, AppEnds,
       addNewLineBTNtapped, closeBTNtapped, postBTNtapped, addNote, deleteItem, NoteFetched,
       EmptyThePhone, getTimeline, Midnight, WidgetTypeOK
  <2>2. ~isDateExist(rows, today + 1)
    BY <1>1, RowsAreDays DEF isDateExist
  <2>3. isDateExist(rows, today) <=> today \in Range(rows)
    BY <1>1, RowsAreDays
  <2> QED
    BY <1>1, <2>1, <2>2, <2>3, RowsAreDays, StreakOverMidnight
<1>2. WidgetTypeOK /\ [WidgetNext]_widgetVars =>
        [today' > today =>
          calculateStreak(rows', today')
            = IF today \in Range(rows) THEN calculateStreak(rows, today) ELSE 0]_widgetVars
  BY <1>1
<1> QED
  BY <1>2, WidgetTypeCorrect, PTL DEF WidgetSpec, MidnightJudgesTheDay

(***************************************************************************)
(* What the widgets are told.                                              *)
(***************************************************************************)

\* From the moment a note of today is there the shared streak counts it
\* (StreakCountsToday): Midnight takes the premise away, a row is added
\* together with the streak, and everything else is saved whole.
THEOREM SharedStreakCountsToday == WidgetSpec => []StreakCountsToday
<1>1. WidgetInit => StreakCountsToday
  BY DEF WidgetInit, StreakCountsToday, Range
<1>2. ASSUME WidgetTypeOK, StreakCountsToday, [WidgetNext]_widgetVars
      PROVE  StreakCountsToday'
  <2>1. CASE SplashShown \/ postBTNtapped
    BY <1>2, <2>1 DEF SplashShown, postBTNtapped, saveUserData, StreakCountsToday
  <2>2. CASE addNote
    BY <1>2, <2>2 DEF addNote, StreakCountsToday, WidgetTypeOK, Defaults
  <2>3. CASE (\E i \in DOMAIN rows : deleteItem(i)) \/ EmptyThePhone
               \/ \E day \in FirstDay .. today : NoteFetched(day)
    BY <1>2, <2>3, LimitAssumption
       DEF deleteItem, EmptyThePhone, NoteFetched, Untold, StreakCountsToday, WidgetTypeOK
  <2>4. CASE Midnight
    <3>1. today' \notin Range(rows')
      BY <1>2, <2>4, RowsAreDays, DayAssumption DEF Midnight
    <3> QED
      BY <3>1 DEF StreakCountsToday
  <2>5. CASE startBTNtapped \/ AppEnds \/ addNewLineBTNtapped \/ closeBTNtapped
               \/ getTimeline \/ UNCHANGED widgetVars
    BY <1>2, <2>5 DEF startBTNtapped, AppEnds, addNewLineBTNtapped, closeBTNtapped,
       getTimeline, widgetVars, StreakCountsToday
  <2> QED
    BY <1>2, <2>1, <2>2, <2>3, <2>4, <2>5 DEF WidgetNext
<1> QED
  BY <1>1, <1>2, WidgetTypeCorrect, PTL DEF WidgetSpec

\* A week marks no day without one of the notes, and misses none but the newest.
Honest(s, days) ==
  \A i \in DOMAIN s.week :
    LET day == s.week[i].date
    IN  /\ s.week[i].hasNote => day \in days
        /\ ~s.week[i].hasNote /\ day \in days => day >= s.noteDate

\* What makes it inductive: it holds of what the widgets will read next as of
\* what they have read, and neither knows of a day to come.
WeekInv ==
  /\ shared.noteDate <= today /\ timeline.noteDate <= today
  /\ untold = 0 => Honest(shared, Range(rows)) /\ Honest(timeline, Range(rows))

\* One more note of today leaves a week as good as it was.
LEMMA HonestGrows ==
  ASSUME WidgetTypeOK, NEW s, s.noteDate <= today, Honest(s, Range(rows))
  PROVE  Honest(s, Range(rows) \cup {today})
  BY RowsAreDays DEF Honest

LEMMA WeekStep ==
  ASSUME WidgetTypeOK, WeekInv, [WidgetNext]_widgetVars
  PROVE  WeekInv'
<1>1. CASE SplashShown
  <2>1. shared'.noteDate <= today' /\ UNCHANGED <<today, rows, timeline, untold>>
    BY <1>1, SavedIsTyped DEF SplashShown
  <2>2. Honest(shared', Range(rows))
    BY <1>1, WeekIsMarked DEF SplashShown, saveUserData, Honest
  <2> QED
    BY <2>1, <2>2 DEF WeekInv
<1>2. CASE postBTNtapped
  <2>1. shared'.noteDate <= today' /\ UNCHANGED <<today, rows, timeline, untold>>
    BY <1>2, RowsAreDays DEF postBTNtapped
  <2>2. Honest(shared', Range(rows))
    BY <1>2, WeekIsMarked DEF postBTNtapped, Honest
  <2> QED
    BY <2>1, <2>2 DEF WeekInv
<1>3. CASE addNote
  <2>1. UNCHANGED <<today, timeline, untold>> /\ rows' = Append(rows, today)
    BY <1>3 DEF addNote
  <2>2. shared'.noteDate = shared.noteDate /\ shared'.week = shared.week
    BY <1>3 DEF addNote, WidgetTypeOK, Defaults
  <2>3. Range(rows') = Range(rows) \cup {today}
    BY <2>1, RowsAppended, DayAssumption DEF WidgetTypeOK
  <2>4. untold = 0 => Honest(shared, Range(rows')) /\ Honest(timeline, Range(rows'))
    BY <2>3, HonestGrows DEF WeekInv
  <2>5. Honest(shared, Range(rows')) => Honest(shared', Range(rows'))
    BY <2>2 DEF Honest
  <2> QED
    BY <2>1, <2>2, <2>4, <2>5 DEF WeekInv
<1>4. CASE (\E i \in DOMAIN rows : deleteItem(i)) \/ EmptyThePhone
             \/ \E day \in FirstDay .. today : NoteFetched(day)
  BY <1>4, LimitAssumption
     DEF deleteItem, EmptyThePhone, NoteFetched, Untold, WeekInv, WidgetTypeOK
<1>5. CASE getTimeline
  BY <1>5 DEF getTimeline, WeekInv
<1>6. CASE Midnight
  <2>1. shared.noteDate \in Int /\ timeline.noteDate \in Int
    BY DayAssumption DEF WidgetTypeOK, Defaults, NoDate
  <2> QED
    BY <1>6, <2>1, RowsAreDays DEF Midnight, WeekInv
<1>7. CASE startBTNtapped \/ AppEnds \/ addNewLineBTNtapped \/ closeBTNtapped
             \/ UNCHANGED widgetVars
  BY <1>7 DEF startBTNtapped, AppEnds, addNewLineBTNtapped, closeBTNtapped, widgetVars, WeekInv
<1> QED
  BY <1>1, <1>2, <1>3, <1>4, <1>5, <1>6, <1>7 DEF WidgetNext

\* However old its entries are the widget's week marks no day without a note,
\* and misses no note older than the one it shows (WeekMissesOnlyTheNewest).
THEOREM WidgetsWeekMissesOnlyTheNewest == WidgetSpec => []WeekMissesOnlyTheNewest
<1>1. WidgetInit => WeekInv
  BY DayAssumption DEF WidgetInit, WeekInv, Honest, NoDate
<1>2. WidgetTypeOK /\ WeekInv /\ [WidgetNext]_widgetVars => WeekInv'
  BY WeekStep
<1>3. WeekInv => WeekMissesOnlyTheNewest
  BY DEF WeekInv, Honest, WeekMissesOnlyTheNewest
<1> QED
  BY <1>1, <1>2, <1>3, WidgetTypeCorrect, PTL DEF WidgetSpec
=============================================================================
