---------------------------- MODULE StreakProofs ----------------------------
(***************************************************************************)
(* The streak screen: the arrows, the squares and the counts, for any      *)
(* dates it is opened on, any notes and any number of taps.                *)
(***************************************************************************)
EXTENDS StreakScreen, Functions, TLAPS, FiniteSetTheorems, SequenceTheorems

(***************************************************************************)
(* The month.                                                              *)
(***************************************************************************)

\* A month has 28 to 31 days.
LEMMA MonthLengths ==
  ASSUME NEW year, NEW month
  PROVE  MonthLength(year, month) \in 28 .. 31
  BY DEF MonthLength

\* The lesser of two numbers.
LEMMA MinOfTwo ==
  ASSUME NEW x \in Int, NEW y \in Int
  PROVE  Min({x, y}) = IF x <= y THEN x ELSE y
<1>1. CASE x <= y
  <2>1. \A m \in {x, y} : (\A z \in {x, y} : m <= z) <=> m = x
    BY <1>1
  <2> QED
    BY <1>1, <2>1 DEF Min
<1>2. CASE ~(x <= y)
  <2>1. \A m \in {x, y} : (\A z \in {x, y} : m <= z) <=> m = y
    BY <1>2
  <2> QED
    BY <1>2, <2>1 DEF Min
<1> QED
  BY <1>1, <1>2

\* After as many empty squares as the first day is past Sunday, every day has
\* a square, in the column of its weekday.
LEMMA SquaresLaidOut ==
  ASSUME NEW first \in Int, NEW days \in Nat
  PROVE  LET squares == Squares(first, days, weekDay(first))
         IN  /\ UNION Range(squares) = first .. first + days - 1
             /\ \A k \in DOMAIN squares : \A day \in squares[k] :
                  ((k - 1) % 7) + 1 = weekday(day)
<1> DEFINE s == weekDay(first)
           squares == Squares(first, days, s)
<1>1. s = (first + 4) % 7 /\ s \in 0 .. 6
  BY DEF weekDay, weekday
<1> HIDE DEF s
<1>2. /\ DOMAIN squares = 1 .. days + s
      /\ \A k \in 1 .. days + s :
           squares[k] = IF k <= s THEN {} ELSE {first + k - s - 1}
  BY DEF Squares
<1> HIDE DEF squares
<1>3. ASSUME NEW k \in DOMAIN squares, NEW day \in squares[k]
      PROVE  day \in first .. first + days - 1 /\ ((k - 1) % 7) + 1 = weekday(day)
  <2>1. k \in s + 1 .. days + s /\ day = first + k - s - 1
    BY <1>1, <1>2, <1>3
  <2>2. day \in first .. first + days - 1
    BY <1>1, <2>1
  <2>3. (day + 4) % 7 = (k - 1) % 7
    BY <1>1, <2>1
  <2> QED
    BY <2>2, <2>3 DEF weekday
<1>4. ASSUME NEW day \in first .. first + days - 1
      PROVE  \E k \in DOMAIN squares : day \in squares[k]
  <2>1. /\ day - first + s + 1 \in DOMAIN squares
        /\ squares[day - first + s + 1] = {day}
    BY <1>1, <1>2
  <2> QED
    BY <2>1
<1>5. UNION Range(squares) = first .. first + days - 1
  BY <1>3, <1>4 DEF Range
<1> QED
  BY <1>3, <1>5 DEF squares, s

\* The squares with a note are as many as the days with one.
LEMMA SquaresCounted ==
  ASSUME NEW dates \in Seq(Int), NEW first \in Int, NEW days \in Nat, NEW spaces \in Nat
  PROVE  LET squares == Squares(first, days, spaces)
             counted == {k \in DOMAIN squares : \E day \in squares[k] : isDateExist(dates, day)}
             written == Range(dates) \cap (first .. first + days - 1)
         IN  /\ Cardinality(counted) = Cardinality(written)
             /\ Cardinality(written) \in 0 .. days
<1> DEFINE squares == Squares(first, days, spaces)
           counted == {k \in DOMAIN squares : \E day \in squares[k] : isDateExist(dates, day)}
           written == Range(dates) \cap (first .. first + days - 1)
           f == [day \in written |-> day - first + spaces + 1]
<1>1. /\ DOMAIN squares = 1 .. days + spaces
      /\ \A k \in 1 .. days + spaces :
           squares[k] = IF k <= spaces THEN {} ELSE {first + k - spaces - 1}
  BY DEF Squares
<1>2. \A d : isDateExist(dates, d) <=> d \in Range(dates)
  BY DEF isDateExist, Range
<1> HIDE DEF squares
<1>3. \A k : k \in counted <=> k \in spaces + 1 .. spaces + days
                               /\ first + k - spaces - 1 \in Range(dates)
  BY <1>1, <1>2
<1>4. IsFiniteSet(written) /\ Cardinality(written) \in 0 .. days
  <2>1. IsFiniteSet(first .. first + days - 1) /\ Cardinality(first .. first + days - 1) = days
    BY FS_Interval
  <2>2. written \in SUBSET (first .. first + days - 1)
    OBVIOUS
  <2> HIDE DEF written
  <2>3. IsFiniteSet(written) /\ Cardinality(written) <= days
    BY <2>1, <2>2, FS_Subset
  <2> QED
    BY <2>3, FS_CardinalityType
<1>5. f \in Bijection(written, counted)
  <2>1. \A d \in written : f[d] \in counted /\ d \in Int
    BY <1>3
  <2>2. f \in [written -> counted]
    BY <2>1
  <2>3. \A d, e \in written : f[d] = f[e] => d = e
    BY <2>1
  <2>4. ASSUME NEW k \in counted
        PROVE  \E d \in written : f[d] = k
    <3> DEFINE d == first + k - spaces - 1
    <3>1. k \in spaces + 1 .. spaces + days /\ d \in Range(dates)
      BY <1>3, <2>4
    <3>2. d \in first .. first + days - 1
      BY <3>1
    <3>3. d \in written /\ d - first + spaces + 1 = k
      BY <3>1, <3>2
    <3>4. f[d] = k
      BY <3>3
    <3> QED
      BY <3>3, <3>4
  <2> HIDE DEF f, written, counted
  <2> QED
    BY <2>2, <2>3, <2>4 DEF Bijection, Injection, Surjection, IsInjective
<1> HIDE DEF f, written, counted
<1>6. Cardinality(counted) = Cardinality(written)
  BY <1>4, <1>5, FS_Bijection DEF ExistsBijection
<1> QED
  BY <1>4, <1>6 DEF written, counted, squares

\* The first of a month, and the month's length.
LEMMA MonthOfDate ==
  ASSUME NEW date, IsDate(date)
  PROVE  /\ DayNumber(firstOfMonth(date)) \in Int
         /\ daysInMonth(date) \in 28 .. 31
         /\ date.year \in Int /\ date.month \in 1..12 /\ date.day \in 1 .. daysInMonth(date)
<1>1. /\ date \in [year : Int, month : 1..12, day : 1..31]
      /\ daysInMonth(date) \in 28 .. 31 /\ date.day <= daysInMonth(date)
  BY MonthLengths DEF IsDate, daysInMonth
<1>2. firstOfMonth(date) \in [year : Int, month : 1..12, day : 1..31]
  BY <1>1 DEF firstOfMonth
<1>3. \A d \in [year : Int, month : 1..12, day : 1..31] : DayNumber(d) \in Int
  BY DEF DayNumber
<1> QED
  BY <1>1, <1>2, <1>3

\* Months are numbered.
LEMMA IndexOfDate ==
  ASSUME NEW date, IsDate(date)
  PROVE  MonthIndex(date) \in Int
BY MonthOfDate DEF MonthIndex

\* A date of another month, its day cut to the month's length.
LEMMA OtherMonth ==
  ASSUME NEW date, IsDate(date), NEW year \in Int, NEW month \in 1..12,
         NEW other, other = OnMonth(date, year, month)
  PROVE  /\ IsDate(other) /\ MonthIndex(other) = 12 * year + month
         /\ other.day \in {date.day, daysInMonth(other)}
<1> DEFINE day == Min({date.day, MonthLength(year, month)})
<1>1. date.day \in 1..31 /\ MonthLength(year, month) \in 28 .. 31
  BY MonthOfDate, MonthLengths DEF IsDate
<1>2. /\ day \in {date.day, MonthLength(year, month)}
      /\ day \in 1..31 /\ day <= MonthLength(year, month)
  BY <1>1, MinOfTwo
<1> HIDE DEF day
<1>3. other = [year |-> year, month |-> month, day |-> day]
  BY DEF OnMonth, day
<1> QED
  BY <1>2, <1>3 DEF IsDate, daysInMonth, MonthIndex

\* An arrow leads to the next or the previous month, and the other one back.
LEMMA ArrowsTurn ==
  ASSUME NEW date, IsDate(date)
  PROVE  /\ IsDate(plusMonth(date)) /\ MonthIndex(plusMonth(date)) = MonthIndex(date) + 1
         /\ plusMonth(date).day \in {date.day, daysInMonth(plusMonth(date))}
         /\ IsDate(minusMonth(date)) /\ MonthIndex(minusMonth(date)) = MonthIndex(date) - 1
         /\ minusMonth(date).day \in {date.day, daysInMonth(minusMonth(date))}
<1> DEFINE year == date.year
           month == date.month
           Follows(other, n) == /\ IsDate(other) /\ MonthIndex(other) = n
                                /\ other.day \in {date.day, daysInMonth(other)}
<1>1. year \in Int /\ month \in 1..12 /\ MonthIndex(date) = 12 * year + month
  BY MonthOfDate DEF MonthIndex
<1>2. \A y \in Int, m \in 1..12 : Follows(OnMonth(date, y, m), 12 * y + m)
  BY OtherMonth
<1>3. /\ plusMonth(date) = IF month = 12 THEN OnMonth(date, year + 1, 1)
                                         ELSE OnMonth(date, year, month + 1)
      /\ minusMonth(date) = IF month = 1 THEN OnMonth(date, year - 1, 12)
                                         ELSE OnMonth(date, year, month - 1)
  BY DEF plusMonth, minusMonth
<1> HIDE DEF year, month, Follows
<1>4. Follows(plusMonth(date), MonthIndex(date) + 1)
  <2>1. CASE month = 12
    <3>1. Follows(OnMonth(date, year + 1, 1), 12 * (year + 1) + 1)
      BY <1>1, <1>2
    <3>2. 12 * (year + 1) + 1 = MonthIndex(date) + 1
      BY <1>1, <2>1
    <3> QED
      BY <1>3, <2>1, <3>1, <3>2
  <2>2. CASE month # 12
    <3>1. month + 1 \in 1..12 /\ 12 * year + (month + 1) = MonthIndex(date) + 1
      BY <1>1, <2>2
    <3>2. Follows(OnMonth(date, year, month + 1), 12 * year + (month + 1))
      BY <1>1, <1>2, <3>1
    <3> QED
      BY <1>3, <2>2, <3>1, <3>2
  <2> QED
    BY <2>1, <2>2
<1>5. Follows(minusMonth(date), MonthIndex(date) - 1)
  <2>1. CASE month = 1
    <3>1. Follows(OnMonth(date, year - 1, 12), 12 * (year - 1) + 12)
      BY <1>1, <1>2
    <3>2. 12 * (year - 1) + 12 = MonthIndex(date) - 1
      BY <1>1, <2>1
    <3> QED
      BY <1>3, <2>1, <3>1, <3>2
  <2>2. CASE month # 1
    <3>1. month - 1 \in 1..12 /\ 12 * year + (month - 1) = MonthIndex(date) - 1
      BY <1>1, <2>2
    <3>2. Follows(OnMonth(date, year, month - 1), 12 * year + (month - 1))
      BY <1>1, <1>2, <3>1
    <3> QED
      BY <1>3, <2>2, <3>1, <3>2
  <2> QED
    BY <2>1, <2>2
<1> QED
  BY <1>4, <1>5 DEF Follows

\* What the screen counts is what there is: a day with several notes is one
\* day, a note is a note.
LEMMA MonthCounted ==
  ASSUME NEW written \in Seq(Int), NEW date, IsDate(date)
  PROVE  /\ Cardinality({k \in DOMAIN monthSquares(date) :
                           \E day \in monthSquares(date)[k] : isDateExist(written, day)})
              = Cardinality(Range(written) \cap InMonth(date))
         /\ Cardinality(Range(written) \cap InMonth(date)) \in 0 .. daysInMonth(date)
         /\ countNotesInMonth(written, date)
              = Cardinality({i \in DOMAIN written :
                               written[i] \in Range(written) \cap InMonth(date)})
         /\ countNotesInMonth(written, date) \in Nat
<1> DEFINE first == DayNumber(firstOfMonth(date))
           last == daysInMonth(date)
           squares == Squares(first, last, weekDay(first))
<1>1. first \in Int /\ last \in Nat
  BY MonthOfDate
<1>2. weekDay(first) \in Nat
  <2> HIDE DEF first
  <2> QED
    BY <1>1 DEF weekDay, weekday
<1>3. monthSquares(date) = squares /\ InMonth(date) = first .. first + last - 1
  BY DEF monthSquares, InMonth
<1> HIDE DEF first, last
<1>4. /\ Cardinality({k \in DOMAIN squares : \E day \in squares[k] : isDateExist(written, day)})
           = Cardinality(Range(written) \cap (first .. first + last - 1))
      /\ Cardinality(Range(written) \cap (first .. first + last - 1)) \in 0 .. last
  <2>1. \A n \in Nat :
          /\ Cardinality({k \in DOMAIN Squares(first, last, n) :
                            \E day \in Squares(first, last, n)[k] : isDateExist(written, day)})
               = Cardinality(Range(written) \cap (first .. first + last - 1))
          /\ Cardinality(Range(written) \cap (first .. first + last - 1)) \in 0 .. last
    BY <1>1, SquaresCounted
  <2> QED
    BY <1>2, <2>1
<1> HIDE DEF squares
<1>5. {i \in DOMAIN written : written[i] \in InMonth(date)}
        = {i \in DOMAIN written : written[i] \in Range(written) \cap InMonth(date)}
  BY DEF Range
<1>6. countNotesInMonth(written, date) \in Nat
  <2>1. IsFiniteSet(DOMAIN written)
    <3>1. DOMAIN written = 1 .. Len(written) /\ Len(written) \in Int
      BY LenProperties
    <3> QED
      BY <3>1, FS_Interval
  <2>2. IsFiniteSet({i \in DOMAIN written : written[i] \in InMonth(date)})
    BY <2>1, FS_Subset
  <2> QED
    BY <2>2, FS_CardinalityType DEF countNotesInMonth
<1>7. last = daysInMonth(date)
  BY DEF last
<1> QED
  BY <1>3, <1>4, <1>5, <1>6, <1>7 DEF countNotesInMonth

(***************************************************************************)
(* The screen.                                                             *)
(***************************************************************************)

\* What is drawn is the month shown; the counts may be those of notes that
\* were replaced since.
ScreenInv ==
  /\ rows \in Notes /\ taps \in 0 .. TapLimit
  /\ IsDate(selectedDate) /\ totalSqaures = monthSquares(selectedDate)
  /\ totalDaysFinished \in 0 .. daysInMonth(selectedDate) /\ totalNubOfNotesLbl \in Nat

\* Drawing a month makes it so, and counts right from 0.
LEMMA MonthShown ==
  ASSUME rows \in Notes, NEW date, IsDate(date)
  PROVE  /\ ShowCells(0, monthSquares(date)) = Cardinality(Range(rows) \cap InMonth(date))
         /\ ShowCells(0, monthSquares(date)) \in 0 .. daysInMonth(date)
         /\ countNotesInMonth(rows, date) \in Nat
         /\ countNotesInMonth(rows, date)
              = Cardinality({i \in DOMAIN rows : rows[i] \in Range(rows) \cap InMonth(date)})
<1>1. rows \in Seq(Int)
  BY NotesAssumption
<1> DEFINE days == Range(rows) \cap InMonth(date)
           shown == {k \in DOMAIN monthSquares(date) :
                       \E day \in monthSquares(date)[k] : isDateExist(rows, day)}
<1>2. /\ Cardinality(shown) = Cardinality(days)
      /\ Cardinality(days) \in 0 .. daysInMonth(date)
      /\ countNotesInMonth(rows, date) = Cardinality({i \in DOMAIN rows : rows[i] \in days})
      /\ countNotesInMonth(rows, date) \in Nat
  BY <1>1, MonthCounted
<1>3. ShowCells(0, monthSquares(date)) = 0 + Cardinality(shown)
  BY DEF ShowCells
<1>4. daysInMonth(date) \in Int
  BY MonthOfDate
<1> HIDE DEF days, shown
<1>5. ShowCells(0, monthSquares(date)) = Cardinality(days)
  BY <1>2, <1>3, <1>4
<1> QED
  BY <1>2, <1>5 DEF days

LEMMA ScreenInvHolds == StreakSpec => []ScreenInv
<1>1. StreakInit => ScreenInv
  <2> SUFFICES ASSUME StreakInit PROVE ScreenInv
    OBVIOUS
  <2>1. rows \in Notes /\ IsDate(selectedDate)
    BY OpeningAssumption DEF StreakInit, viewDidLoad
  <2>2. /\ ShowCells(0, monthSquares(selectedDate)) \in 0 .. daysInMonth(selectedDate)
        /\ countNotesInMonth(rows, selectedDate) \in Nat
    BY <2>1, MonthShown
  <2>3. 0 \in 0 .. TapLimit
    BY ScreenAssumption
  <2> QED
    BY <2>1, <2>2, <2>3 DEF StreakInit, viewDidLoad, ScreenInv
<1>2. ASSUME ScreenInv, [StreakNext]_streakVars
      PROVE  ScreenInv'
  <2>1. CASE previousMonthButtonTapped
    <3>1. IsDate(minusMonth(selectedDate))
      BY <1>2, ArrowsTurn DEF ScreenInv
    <3>2. /\ ShowCells(0, monthSquares(minusMonth(selectedDate)))
               \in 0 .. daysInMonth(minusMonth(selectedDate))
          /\ countNotesInMonth(rows, minusMonth(selectedDate)) \in Nat
      BY <1>2, <3>1, MonthShown DEF ScreenInv
    <3>3. taps' \in 0 .. TapLimit
      BY <1>2, <2>1, ScreenAssumption DEF ScreenInv, previousMonthButtonTapped
    <3> QED
      BY <1>2, <2>1, <3>1, <3>2, <3>3 DEF ScreenInv, previousMonthButtonTapped, setMonthView
  <2>2. CASE nextMonthButtonTapped
    <3>1. IsDate(plusMonth(selectedDate))
      BY <1>2, ArrowsTurn DEF ScreenInv
    <3>2. /\ ShowCells(0, monthSquares(plusMonth(selectedDate)))
               \in 0 .. daysInMonth(plusMonth(selectedDate))
          /\ countNotesInMonth(rows, plusMonth(selectedDate)) \in Nat
      BY <1>2, <3>1, MonthShown DEF ScreenInv
    <3>3. taps' \in 0 .. TapLimit
      BY <1>2, <2>2, ScreenAssumption DEF ScreenInv, nextMonthButtonTapped
    <3> QED
      BY <1>2, <2>2, <3>1, <3>2, <3>3 DEF ScreenInv, nextMonthButtonTapped, setMonthView
  <2>3. CASE NotesFetched \/ UNCHANGED streakVars
    BY <1>2, <2>3 DEF ScreenInv, NotesFetched, streakVars
  <2> QED
    BY <1>2, <2>1, <2>2, <2>3 DEF StreakNext
<1> QED
  BY <1>1, <1>2, PTL DEF StreakSpec

\* Every reachable state is well typed: the date shown exists, a square shows
\* one day at most, and no month has more days finished than days.
THEOREM StreakTypeCorrect == StreakSpec => []StreakTypeOK
<1>1. ASSUME ScreenInv
      PROVE  StreakTypeOK
  <2> DEFINE first == DayNumber(firstOfMonth(selectedDate))
             last == daysInMonth(selectedDate)
             spaces == weekDay(first)
  <2>1. totalSqaures = Squares(first, last, spaces)
    BY <1>1 DEF ScreenInv, monthSquares
  <2> HIDE DEF first, last, spaces
  <2>2. ASSUME NEW k \in DOMAIN totalSqaures
        PROVE  Cardinality(totalSqaures[k]) <= 1
    <3>1. totalSqaures[k] = {} \/ totalSqaures[k] = {first + k - spaces - 1}
      BY <2>1 DEF Squares
    <3>2. Cardinality({}) = 0 /\ Cardinality({first + k - spaces - 1}) = 1
      BY FS_EmptySet, FS_Singleton
    <3> QED
      BY <3>1, <3>2
  <2> QED
    BY <1>1, <2>2 DEF ScreenInv, StreakTypeOK
<1> QED
  BY <1>1, ScreenInvHolds, PTL

\* On the phone every day of the month has one square, in the column of its
\* weekday (SquaresUnderTheirWeekday).
THEOREM SquaresAreUnderTheirWeekday ==
  ASSUME ~isPad
  PROVE  StreakSpec => []SquaresUnderTheirWeekday
<1>1. ASSUME ScreenInv
      PROVE  SquaresUnderTheirWeekday
  <2> DEFINE first == DayNumber(firstOfMonth(selectedDate))
             last == daysInMonth(selectedDate)
  <2>1. first \in Int /\ last \in Nat
    BY <1>1, MonthOfDate DEF ScreenInv
  <2>2. /\ totalSqaures = Squares(first, last, weekDay(first))
        /\ InMonth(selectedDate) = first .. first + last - 1
    BY <1>1 DEF ScreenInv, monthSquares, InMonth
  <2> HIDE DEF first, last
  <2>3. cellsPerRow = 7
    BY DEF cellsPerRow
  <2> QED
    BY <2>1, <2>2, <2>3, SquaresLaidOut DEF SquaresUnderTheirWeekday
<1> QED
  BY <1>1, ScreenInvHolds, PTL

\* The counts are those of the month shown and of the notes there were when it
\* was drawn, however often the arrows come back to it (MonthIsCounted).
THEOREM MonthIsAlwaysCounted == StreakSpec => MonthIsCounted
<1>1. ASSUME ScreenInv, [StreakNext]_streakVars, selectedDate' # selectedDate
      PROVE  /\ totalDaysFinished' = Cardinality(DaysWithNote(selectedDate'))
             /\ totalNubOfNotesLbl' =
                  Cardinality({i \in DOMAIN rows : rows[i] \in DaysWithNote(selectedDate')})
  <2>1. CASE previousMonthButtonTapped
    <3>1. IsDate(minusMonth(selectedDate))
      BY <1>1, ArrowsTurn DEF ScreenInv
    <3> DEFINE date == minusMonth(selectedDate)
    <3>2. /\ ShowCells(0, monthSquares(date)) = Cardinality(DaysWithNote(date))
          /\ countNotesInMonth(rows, date)
               = Cardinality({i \in DOMAIN rows : rows[i] \in DaysWithNote(date)})
      BY <1>1, <3>1, MonthShown DEF ScreenInv, DaysWithNote
    <3> HIDE DEF date
    <3> QED
      BY <2>1, <3>2 DEF previousMonthButtonTapped, setMonthView, date
  <2>2. CASE nextMonthButtonTapped
    <3>1. IsDate(plusMonth(selectedDate))
      BY <1>1, ArrowsTurn DEF ScreenInv
    <3> DEFINE date == plusMonth(selectedDate)
    <3>2. /\ ShowCells(0, monthSquares(date)) = Cardinality(DaysWithNote(date))
          /\ countNotesInMonth(rows, date)
               = Cardinality({i \in DOMAIN rows : rows[i] \in DaysWithNote(date)})
      BY <1>1, <3>1, MonthShown DEF ScreenInv, DaysWithNote
    <3> HIDE DEF date
    <3> QED
      BY <2>2, <3>2 DEF nextMonthButtonTapped, setMonthView, date
  <2> QED
    BY <1>1, <2>1, <2>2 DEF StreakNext, NotesFetched, streakVars
<1>2. ScreenInv /\ [StreakNext]_streakVars =>
        [selectedDate' # selectedDate =>
           /\ totalDaysFinished' = Cardinality(DaysWithNote(selectedDate'))
           /\ totalNubOfNotesLbl' =
                Cardinality({i \in DOMAIN rows : rows[i] \in DaysWithNote(selectedDate')})
        ]_streakVars
  BY <1>1
<1> QED
  BY <1>2, ScreenInvHolds, PTL DEF StreakSpec, MonthIsCounted

\* The arrows skip no month and lead back, from the 31st too, in any year
\* (MonthsInTurn).
THEOREM MonthsAreInTurn == StreakSpec => MonthsInTurn
<1>1. ASSUME ScreenInv, [StreakNext]_streakVars, taps' # taps
      PROVE  /\ selectedDate'.day \in {selectedDate.day, daysInMonth(selectedDate')}
             /\ selectedDate'.day <= daysInMonth(selectedDate')
             /\ MonthIndex(selectedDate') - MonthIndex(selectedDate) \in {-1, 1}
             /\ MonthIndex(minusMonth(plusMonth(selectedDate'))) = MonthIndex(selectedDate')
  <2>1. selectedDate' \in {plusMonth(selectedDate), minusMonth(selectedDate)}
    BY <1>1 DEF StreakNext, previousMonthButtonTapped, nextMonthButtonTapped, setMonthView,
       NotesFetched, streakVars
  <2>2. IsDate(selectedDate) /\ IsDate(selectedDate')
    BY <1>1, <2>1, ArrowsTurn DEF ScreenInv
  <2>3. MonthIndex(selectedDate) \in Int /\ MonthIndex(selectedDate') \in Int
    BY <2>2, IndexOfDate
  <2>4. /\ MonthIndex(selectedDate') \in {MonthIndex(selectedDate) + 1, MonthIndex(selectedDate) - 1}
        /\ selectedDate'.day \in {selectedDate.day, daysInMonth(selectedDate')}
    BY <2>1, <2>2, ArrowsTurn
  <2>5. MonthIndex(minusMonth(plusMonth(selectedDate'))) = MonthIndex(selectedDate')
    <3> DEFINE date == selectedDate'
    <3>1. /\ IsDate(plusMonth(date)) /\ MonthIndex(plusMonth(date)) = MonthIndex(date) + 1
          /\ MonthIndex(minusMonth(plusMonth(date))) = MonthIndex(plusMonth(date)) - 1
      BY <2>2, ArrowsTurn
    <3> QED
      BY <2>3, <3>1
  <2>6. selectedDate'.day <= daysInMonth(selectedDate')
    BY <2>2 DEF IsDate
  <2> QED
    BY <2>3, <2>4, <2>5, <2>6
<1>2. ScreenInv /\ [StreakNext]_streakVars =>
        [taps' # taps =>
           /\ selectedDate'.day \in {selectedDate.day, daysInMonth(selectedDate')}
           /\ selectedDate'.day <= daysInMonth(selectedDate')
           /\ MonthIndex(selectedDate') - MonthIndex(selectedDate) \in {-1, 1}
           /\ MonthIndex(minusMonth(plusMonth(selectedDate'))) = MonthIndex(selectedDate')
        ]_streakVars
  BY <1>1
<1> QED
  BY <1>2, ScreenInvHolds, PTL DEF StreakSpec, MonthsInTurn
=============================================================================
