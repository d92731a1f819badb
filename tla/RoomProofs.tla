----------------------------- MODULE RoomProofs -----------------------------
(***************************************************************************)
(* Theorems about a room before its chat: its dates (StartDate), the form  *)
(* that makes it (MakeMatching) and the screen that joins it (JoinGame),   *)
(* for every value of their constants.                                     *)
(***************************************************************************)
EXTENDS StartDate, MakeMatching, JoinGame, Integers, SequenceTheorems,
        FiniteSetTheorems, WellFoundedInduction, TLAPS

\* What is left of a sequence are elements of it.
LEMMA RemoveAtProperties ==
  ASSUME NEW S, NEW s \in Seq(S), NEW i \in DOMAIN s
  PROVE  /\ RemoveAt(s, i) \in Seq(S)
         /\ Len(RemoveAt(s, i)) = Len(s) - 1
         /\ \A j \in 1..(Len(s) - 1) :
              RemoveAt(s, i)[j] = IF j < i THEN s[j] ELSE s[j + 1]
  BY SMTT(60) DEF RemoveAt

\* A set of numbers that is not empty has a least one.
LEMMA LeastNumber ==
  ASSUME NEW T, T \subseteq Nat, T # {}
  PROVE  \E x \in T : \A y \in T : x <= y
<1>1. PICK x \in T : \A y \in T : ~(<<y, x>> \in OpToRel(<, Nat))
  BY NatLessThanWellFounded, WFMin, ZenonT(60)
<1>2. \A y \in T : ~(y < x)
  BY <1>1 DEF OpToRel
<1> QED
  BY <1>2

\* More numbers than there are requests cannot all be taken.
LEMMA TakenTwice ==
  ASSUME NEW k \in Nat, NEW n \in Nat, k <= n, NEW f \in [1..(n + 1) -> 1..k]
  PROVE  \E x, y \in 1..(n + 1) : x # y /\ f[x] = f[y]
<1>1. /\ IsFiniteSet(1..k) /\ Cardinality(1..k) = k
      /\ IsFiniteSet(1..(n + 1)) /\ Cardinality(1..(n + 1)) = n + 1
  BY FS_Interval
<1> QED
  BY <1>1, FS_PigeonHole, SMTT(60)

-----------------------------------------------------------------------------
(* StartDate.  The labels are arithmetic; what a step has to preserve is   *)
(* where their arguments come from: no form and no room is of the future,  *)
(* and picker, stored date and room keep the time of day the form was      *)
(* opened at.                                                              *)

(* Membership of an interval, as comparisons.                              *)
LEMMA InRange ==
  ASSUME NEW x \in Int, NEW a \in Int, NEW b \in Int
  PROVE  x \in a .. b <=> a <= x /\ x <= b
OBVIOUS

(* A day has 86400 seconds.                                                *)
LEMMA DayLength == Day \in Nat /\ 86400 <= Day /\ Day <= 86400
BY DEF Day

(* A second of the calendar is its day and its time of day.                *)
LEMMA DayAndTime ==
  ASSUME NEW s \in Nat
  PROVE  /\ DayOf(s) \in Nat
         /\ s % Day \in 0 .. (Day - 1)
         /\ s = DayOf(s) * Day + (s % Day)
<1>1. \A d \in Nat : d >= 1 => /\ s \div d \in Nat /\ s % d \in 0 .. (d - 1)
                               /\ s = (s \div d) * d + (s % d)
  OBVIOUS
<1>2. Day \in Nat /\ Day >= 1
  BY DayLength
<1> QED
  BY <1>1, <1>2 DEF DayOf

(* A second made of a day and a time of day has that time of day.          *)
LEMMA TimeOfDay ==
  ASSUME NEW day \in Nat, NEW time \in 0 .. (Day - 1)
  PROVE  /\ day * Day + time \in Nat
         /\ (day * Day + time) % Day = time
<1>1. Day \in Nat /\ time \in Nat /\ time < Day
  BY DayLength
<1>2. \A t \in Nat : t < 86400 => /\ day * 86400 + t \in Nat
                                  /\ (day * 86400 + t) % 86400 = t
  OBVIOUS
<1>3. \A d \in Nat : 86400 <= d /\ d <= 86400 => d = 86400
  OBVIOUS
<1>4. \A d \in Nat, t \in Nat : 86400 <= d /\ d <= 86400 /\ t < d =>
         day * d + t \in Nat /\ (day * d + t) % d = t
  BY <1>2, <1>3
<1> QED
  BY <1>1, <1>4, DayLength

(* A later day is a later second, and a day later at least.                *)
LEMMA LaterDay ==
  ASSUME NEW a \in Nat, NEW b \in Nat, a > b,
         NEW p \in 0 .. (Day - 1), NEW q \in 0 .. (Day - 1)
  PROVE  /\ a * Day + p > b * Day + q
         /\ (a - b) * Day \in Nat
         /\ (a - b) * Day >= Day
BY DayLength

(* The bounds of the words, as comparisons.                                *)
LEMMA InInterval ==
  ASSUME NEW second \in Int
  PROVE  /\ second \in 60 .. (Day - 1) <=> 60 <= second /\ second < 86400
         /\ second \in Day .. (2 * Day - 1) <=> 86400 <= second /\ second < 172800
         /\ second >= 2 * Day <=> second >= 172800
         /\ second \in 60 .. 3599 <=> 60 <= second /\ second < 3600
         /\ second \in 3600 .. (Day - 1) <=> 3600 <= second /\ second < 86400
<1>1. second \in 60 .. 3599 <=> 60 <= second /\ second < 3600
  BY InRange
<1> QED
  BY <1>1, DayLength

(* The words for a number of seconds to the start, as numbers.             *)
LEMMA StartWords ==
  ASSUME NEW second \in Int
  PROVE  StartInterval(second) =
           IF second <= 0 THEN -2
           ELSE IF second < 60 THEN -1
           ELSE IF second < 86400 THEN 0
           ELSE IF second < 172800 THEN 1
           ELSE second \div 86400
<1> DEFINE today == second \in 60 .. (Day - 1)
           tomorrow == second \in Day .. (2 * Day - 1)
           later == second >= 2 * Day
<1>1. /\ today <=> 60 <= second /\ second < 86400
      /\ tomorrow <=> 86400 <= second /\ second < 172800
      /\ later <=> second >= 172800
  BY InInterval
<1>2. StartInterval(second) = CASE today -> 0
                                [] tomorrow -> 1
                                [] later -> second \div 86400
                                [] second <= 0 -> -2
                                [] OTHER -> -1
  <2>1. second \div Day = second \div 86400
    BY DayLength
  <2> HIDE DEF today, tomorrow, later
  <2>2. StartInterval(second) = CASE today -> 0
                                  [] tomorrow -> 1
                                  [] later -> second \div Day
                                  [] second <= 0 -> -2
                                  [] OTHER -> -1
    BY DEF StartInterval, Today, Tomorrow, Over, Nothing, today, tomorrow, later
  <2> QED
    BY <2>1, <2>2
<1> HIDE DEF today, tomorrow, later
<1>3. CASE today
  BY <1>1, <1>2, <1>3
<1>4. CASE tomorrow
  BY <1>1, <1>2, <1>4
<1>5. CASE later
  BY <1>1, <1>2, <1>5
<1>6. CASE ~today /\ ~tomorrow /\ ~later
  BY <1>1, <1>2, <1>6
<1> QED
  BY <1>3, <1>4, <1>5, <1>6

(* They say "over" exactly up to 0.                                        *)
LEMMA OverUpToZero ==
  ASSUME NEW second \in Int
  PROVE  StartInterval(second) = Over <=> second <= 0
<1>1. second >= 172800 => second \div 86400 >= 2
  OBVIOUS
<1> QED
  BY <1>1, StartWords DEF Over

(* A start label says "over" exactly from the start on.                    *)
LEMMA StartTimeOver ==
  ASSUME NEW start \in Nat, NEW time \in Nat
  PROVE  StartTime(start, time) = Over <=> start <= time
<1> DEFINE a == DayOf(start)
           b == DayOf(time)
           p == start % Day
           q == time % Day
<1>1. /\ a \in Nat /\ b \in Nat
      /\ p \in 0 .. (Day - 1) /\ q \in 0 .. (Day - 1)
      /\ start = a * Day + p
      /\ time = b * Day + q
  BY DayAndTime
<1>2. StartTime(start, time) =
        StartInterval(CASE a - b = 0 -> start - time
                        [] a - b > 0 -> (a - b) * Day
                        [] OTHER     -> 0)
  BY DEF StartTime
<1> HIDE DEF a, b, p, q
<1>3. CASE a = b
  <2>1. StartTime(start, time) = StartInterval(start - time)
    BY <1>1, <1>2, <1>3
  <2> QED
    BY <2>1, OverUpToZero
<1>4. CASE a > b
  <2>1. start > time /\ (a - b) * Day \in Nat /\ (a - b) * Day >= Day
    BY <1>1, <1>4, LaterDay
  <2>2. StartTime(start, time) = StartInterval((a - b) * Day)
    BY <1>1, <1>2, <1>4
  <2>3. (a - b) * Day > 0
    BY <2>1, DayLength
  <2> QED
    BY <2>1, <2>2, <2>3, OverUpToZero
<1>5. CASE b > a
  <2>1. start < time
    BY <1>1, <1>5, LaterDay
  <2>2. StartTime(start, time) = StartInterval(0)
    BY <1>1, <1>2, <1>5
  <2> QED
    BY <2>1, <2>2, OverUpToZero
<1> QED
  BY <1>1, <1>3, <1>4, <1>5

-----------------------------------------------------------------------------
(* The inductive invariant.                                                *)

(* A form is not of the future, and its picker keeps its time of day.      *)
FormDates ==
  /\ now \in Nat
  /\ opened \in Nat \cup {NoDate}
  /\ opened # NoDate => /\ opened <= now
                      /\ picker \in Nat
                      /\ picker % Day = opened % Day

(* A date set on this form has its time of day too.                        *)
StoredDates ==
  /\ stored \in Nat \cup {NoDate}
  /\ opened # NoDate /\ set => stored \in Nat /\ stored % Day = opened % Day

(* A room has the date of the form it was made with.                       *)
RoomDates ==
  /\ room \in [start : Nat \cup {NoDate}, created : Nat \cup {NoDate},
               opened : Nat \cup {NoDate}]
  /\ room # NotMade => room.start \in Nat
  /\ room.opened # NoDate => /\ room.opened <= now
                             /\ room.start \in Nat
                             /\ room.start % Day = room.opened % Day

DatesInv == FormDates /\ StoredDates /\ RoomDates

(* The invariant holds at the start.                                       *)
LEMMA DatesInit == DateInit => DatesInv
<1> SUFFICES ASSUME DateInit PROVE DatesInv
  OBVIOUS
<1> USE DEF DateInit
<1>1. FormDates
  BY StartDateAssumption DEF FormDates
<1>2. StoredDates
  BY DEF StoredDates
<1>3. RoomDates
  BY DEF RoomDates, NotMade
<1> QED
  BY <1>1, <1>2, <1>3 DEF DatesInv

(* Every step keeps the invariant.                                         *)
LEMMA DatesStep == DatesInv /\ [DateNext]_dateVars => DatesInv'
<1> SUFFICES ASSUME DatesInv, [DateNext]_dateVars PROVE DatesInv'
  OBVIOUS
<1>0. NoDate \notin Nat
  BY DEF NoDate
<1> USE DEF DatesInv, FormDates, StoredDates, RoomDates
<1>1. ASSUME NEW time \in Moments, Tick(time) PROVE DatesInv'
  BY <1>1, StartDateAssumption DEF Tick
<1>2. CASE MakePicker
  BY <1>2 DEF MakePicker
<1>3. ASSUME NEW m \in Moments, TurnPicker(DayOf(m)) PROVE DatesInv'
  <2> DEFINE day == DayOf(m)
             time == picker % Day
  <2>1. day \in Nat
    BY StartDateAssumption, DayAndTime
  <2>2. opened # NoDate /\ time \in 0 .. (Day - 1) /\ time = opened % Day
    BY <1>3, DayAndTime DEF TurnPicker
  <2>3. picker' = day * Day + time
    BY <1>3 DEF TurnPicker
  <2> HIDE DEF day, time
  <2>4. picker' \in Nat /\ picker' % Day = time
    BY <2>1, <2>2, <2>3, TimeOfDay
  <2> QED
    BY <1>3, <2>2, <2>4 DEF TurnPicker
<1>4. CASE DidTapSetGameStartDate
  BY <1>4 DEF DidTapSetGameStartDate
<1>5. CASE PopForm
  BY <1>5 DEF PopForm, CloseForm
<1>6. CASE MakeRoom
  <2>1. FormDates' /\ StoredDates'
    BY <1>6 DEF MakeRoom, CloseForm
  <2>2. RoomDates'
    <3>1. CASE set
      BY <1>0, <1>6, <3>1 DEF MakeRoom, NotMade
    <3>2. CASE ~set
      BY <1>0, <1>6, <3>2 DEF MakeRoom, NotMade
    <3> QED
      BY <3>1, <3>2
  <2> QED
    BY <2>1, <2>2
<1>7. CASE UNCHANGED dateVars
  BY <1>7 DEF dateVars
<1> QED
  BY <1>1, <1>2, <1>3, <1>4, <1>5, <1>6, <1>7 DEF DateNext

(* So the invariant holds in every reachable state.                        *)
LEMMA DatesInvariance == DateSpec => []DatesInv
<1> QED
  BY DatesInit, DatesStep, PTL DEF DateSpec

-----------------------------------------------------------------------------
(* A row says "over" from the second of the start on and not one earlier   *)
(* (calculateStartTime).                                                   *)
THEOREM OverExactly == DateSpec => []OverFromStart
<1>1. DatesInv => OverFromStart
  <2> SUFFICES ASSUME DatesInv, room # NotMade
               PROVE  StartTime(room.start, now) = Over <=> room.start <= now
    BY DEF OverFromStart
  <2>1. room.start \in Nat /\ now \in Nat
    BY DEF DatesInv, FormDates, RoomDates
  <2> QED
    BY <2>1, StartTimeOver
<1> QED
  BY <1>1, DatesInvariance, PTL

(* A room made for the day its form was opened on is over from the first   *)
(* moment on (didTapSetGameStartDateButton).                               *)
THEOREM NoRoomForToday == DateSpec => []TodaysRoomIsOver
<1>1. DatesInv => TodaysRoomIsOver
  <2> SUFFICES ASSUME DatesInv, room.opened # NoDate,
                      DayOf(room.start) = DayOf(room.opened)
               PROVE  StartTime(room.start, now) = Over
    BY DEF TodaysRoomIsOver
  <2>1. /\ room.start \in Nat /\ room.opened \in Nat /\ now \in Nat
        /\ room.opened <= now
        /\ room.start % Day = room.opened % Day
    BY DEF DatesInv, FormDates, RoomDates
  <2>2. room.start = DayOf(room.start) * Day + (room.start % Day)
    BY <2>1, DayAndTime
  <2>3. room.opened = DayOf(room.opened) * Day + (room.opened % Day)
    BY <2>1, DayAndTime
  <2>4. room.start = room.opened
    BY <2>1, <2>2, <2>3
  <2>5. room.start <= now
    BY <2>1, <2>4
  <2> QED
    BY <2>1, <2>5, StartTimeOver
<1> QED
  BY <1>1, DatesInvariance, PTL

-----------------------------------------------------------------------------
(* Labels only move on.                                                    *)

(* The less time is left, the less the label says.                         *)
LEMMA StartWordsFall ==
  ASSUME NEW a \in Int, NEW b \in Int, a <= b
  PROVE  StartInterval(a) <= StartInterval(b)
<1>1. b >= 172800 => b \div 86400 >= 2
  OBVIOUS
<1>2. a >= 172800 => a \div 86400 <= b \div 86400 /\ a \div 86400 \in Int
  OBVIOUS
<1>3. b \div 86400 \in Int
  OBVIOUS
<1> QED
  BY <1>1, <1>2, <1>3, StartWords

(* A day has 86400 seconds.                                                *)
LEMMA DayInSeconds ==
  ASSUME NEW s \in Nat
  PROVE  /\ Day = 86400 /\ DayOf(s) \in Nat
         /\ s % Day \in Nat /\ s % Day < 86400
         /\ s = DayOf(s) * 86400 + (s % Day)
<1>1. Day = 86400
  BY DEF Day
<1>2. /\ s \div 86400 \in Nat /\ s % 86400 \in Nat /\ s % 86400 < 86400
      /\ s = (s \div 86400) * 86400 + (s % 86400)
  OBVIOUS
<1> QED
  BY <1>1, <1>2 DEF DayOf

(* So a label of the same room never says more later.                      *)
LEMMA StartTimeFalls ==
  ASSUME NEW start \in Nat, NEW time \in Nat, NEW later \in Nat, time <= later
  PROVE  StartTime(start, later) <= StartTime(start, time)
<1> DEFINE a == DayOf(start)
           b == DayOf(time)
           c == DayOf(later)
           p == start % Day
           q == time % Day
           r == later % Day
           left(d, t) == CASE a - d = 0 -> start - t
                           [] a - d > 0 -> (a - d) * Day
                           [] OTHER     -> 0
<1>1. /\ a \in Nat /\ b \in Nat /\ c \in Nat
      /\ p \in 0 .. (Day - 1) /\ q \in 0 .. (Day - 1) /\ r \in 0 .. (Day - 1)
      /\ start = a * Day + p
      /\ time = b * Day + q
      /\ later = c * Day + r
  BY DayAndTime
<1>0. /\ Day = 86400 /\ a \in Nat /\ b \in Nat /\ c \in Nat
      /\ p \in Nat /\ p < 86400 /\ r \in Nat
      /\ start = a * 86400 + p /\ later = c * 86400 + r
  BY DayInSeconds
<1>2. /\ StartTime(start, time) = StartInterval(left(b, time))
      /\ StartTime(start, later) = StartInterval(left(c, later))
  BY DEF StartTime
<1>3. b <= c
  <2>1. ~(b > c)
    BY <1>1, LaterDay
  <2> QED
    BY <1>1, <2>1
<1> HIDE DEF a, b, c, p, q, r
<1>4. ASSUME NEW d \in Nat, NEW t \in Nat PROVE left(d, t) \in Int
  <2> HIDE DEF left
  <2>1. start - t \in Int /\ a - d \in Int
    BY <1>0
  <2>3. (a - d) * Day \in Int
    BY <1>0, <2>1
  <2>2. a - d = 0 \/ a - d > 0 \/ (a - d # 0 /\ ~(a - d > 0))
    OBVIOUS
  <2> QED
    BY <2>1, <2>2, <2>3 DEF left
<1>5. CASE a < c
  <2>1. left(c, later) = 0
    BY <1>1, <1>5
  <2>2. StartInterval(0) = -2
    BY StartWords
  <2>3. StartInterval(left(b, time)) >= -2
    <3> DEFINE x == left(b, time)
    <3>1. x \in Int
      BY <1>1, <1>4
    <3> HIDE DEF x
    <3>2. x >= 172800 => x \div 86400 >= 2
      BY <3>1
    <3>3. StartInterval(x) >= -2
      BY <3>1, <3>2, StartWords
    <3> QED
      BY <3>3 DEF x
  <2> QED
    BY <1>2, <2>1, <2>2, <2>3
<1>6. CASE a >= c
  <2>1. left(c, later) <= left(b, time)
    <3>1. CASE a = b
      <4>1. a = c
        BY <1>1, <1>3, <1>6, <3>1
      <4>2. left(c, later) = start - later /\ left(b, time) = start - time
        BY <1>1, <3>1, <4>1
      <4> QED
        BY <4>2
    <3>2. CASE a > b /\ a = c
      <4>1. left(c, later) = start - later /\ left(b, time) = (a - b) * Day
        BY <1>1, <3>2
      <4>2. (a - b) * Day >= Day /\ (a - b) * Day \in Nat
        BY <1>1, <3>2, LaterDay
      <4>3. start - later < Day
        <5>1. start - later = p - r
          BY <1>0, <3>2
        <5> QED
          BY <1>0, <5>1
      <4> QED
        BY <4>1, <4>2, <4>3, DayLength
    <3>3. CASE a > b /\ a > c
      <4>1. left(c, later) = (a - c) * Day /\ left(b, time) = (a - b) * Day
        BY <1>1, <3>3
      <4>2. (a - c) * 86400 <= (a - b) * 86400
        BY <1>0, <1>3
      <4> QED
        BY <1>0, <4>1, <4>2
    <3> QED
      BY <1>1, <1>3, <1>6, <3>1, <3>2, <3>3
  <2>2. left(c, later) \in Int /\ left(b, time) \in Int
    BY <1>1, <1>4
  <2> HIDE DEF left
  <2> QED
    BY <1>2, <2>1, <2>2, StartWordsFall
<1> QED
  BY <1>1, <1>5, <1>6

(* The words for the age of a room, as numbers.                            *)
LEMMA CreatedWords ==
  ASSUME NEW second \in Int
  PROVE  CreatedInterval(second) =
           IF second = 0 THEN 0
           ELSE IF second < 60 THEN -1
           ELSE IF second < 3600 THEN second \div 60
           ELSE IF second < 86400 THEN 60 + second \div 3600
           ELSE IF second < 172800 THEN 85
           ELSE 84 + second \div 86400
<1> DEFINE minutes == second \in 60 .. 3599
           hours == second \in 3600 .. (Day - 1)
           yesterday == second \in Day .. (2 * Day - 1)
           days == second >= 2 * Day
<1>1. /\ minutes <=> 60 <= second /\ second < 3600
      /\ hours <=> 3600 <= second /\ second < 86400
      /\ yesterday <=> 86400 <= second /\ second < 172800
      /\ days <=> second >= 172800
  BY InInterval
<1>2. CreatedInterval(second) = CASE second = 0 -> 0
                                  [] minutes -> second \div 60
                                  [] hours -> 60 + second \div 3600
                                  [] yesterday -> 60 + 24 + 1
                                  [] days -> 60 + 24 + second \div 86400
                                  [] OTHER -> -1
  <2>1. second \div Day = second \div 86400
    BY DayLength
  <2> HIDE DEF minutes, hours, yesterday, days
  <2>2. CreatedInterval(second) = CASE second = 0 -> 0
                                    [] minutes -> second \div 60
                                    [] hours -> 60 + second \div 3600
                                    [] yesterday -> 60 + 24 + 1
                                    [] days -> 60 + 24 + second \div Day
                                    [] OTHER -> -1
    BY DEF CreatedInterval, Minutes, Hours, Days, Nothing, minutes, hours, yesterday, days
  <2> QED
    BY <2>1, <2>2
<1> HIDE DEF minutes, hours, yesterday, days
<1>3. CASE second = 0
  BY <1>1, <1>2, <1>3
<1>4. CASE minutes
  BY <1>1, <1>2, <1>4
<1>5. CASE hours
  BY <1>1, <1>2, <1>5
<1>6. CASE yesterday
  BY <1>1, <1>2, <1>6
<1>7. CASE days
  BY <1>1, <1>2, <1>7
<1>8. CASE second # 0 /\ ~minutes /\ ~hours /\ ~yesterday /\ ~days
  BY <1>1, <1>2, <1>8
<1> QED
  BY <1>3, <1>4, <1>5, <1>6, <1>7, <1>8

(* An age that has words has them in order.                                *)
LEMMA CreatedWordsRise ==
  ASSUME NEW a \in Int, NEW b \in Int, a <= b,
         CreatedInterval(a) # Nothing, CreatedInterval(b) # Nothing
  PROVE  /\ CreatedInterval(a) \in Nat /\ CreatedInterval(b) \in Nat
         /\ CreatedInterval(a) <= CreatedInterval(b)
<1>1. ASSUME NEW s \in Int, CreatedInterval(s) # Nothing
      PROVE  /\ s = 0 \/ s >= 60
             /\ s = 0 => CreatedInterval(s) = 0
             /\ 60 <= s /\ s < 3600 => /\ CreatedInterval(s) = s \div 60
                                       /\ s \div 60 \in 1 .. 59
             /\ 3600 <= s /\ s < 86400 => /\ CreatedInterval(s) = 60 + s \div 3600
                                          /\ s \div 3600 \in 1 .. 23
             /\ 86400 <= s /\ s < 172800 => CreatedInterval(s) = 85
             /\ 172800 <= s => /\ CreatedInterval(s) = 84 + s \div 86400
                               /\ s \div 86400 \in Nat /\ s \div 86400 >= 2
  <2>1. 60 <= s /\ s < 3600 => s \div 60 \in 1 .. 59
    OBVIOUS
  <2>2. 3600 <= s /\ s < 86400 => s \div 3600 \in 1 .. 23
    OBVIOUS
  <2>3. 172800 <= s => s \div 86400 \in Nat /\ s \div 86400 >= 2
    OBVIOUS
  <2>4. s = 0 \/ s >= 60
    BY <1>1, CreatedWords DEF Nothing
  <2> QED
    BY <2>1, <2>2, <2>3, <2>4, CreatedWords
<1>2. a \div 60 <= b \div 60 /\ a \div 3600 <= b \div 3600 /\ a \div 86400 <= b \div 86400
  OBVIOUS
<1> DEFINE u == CreatedInterval(a)
           v == CreatedInterval(b)
           a1 == a \div 60  b1 == b \div 60
           a2 == a \div 3600  b2 == b \div 3600
           a3 == a \div 86400  b3 == b \div 86400
<1>3. /\ a = 0 \/ a >= 60
      /\ a = 0 => u = 0
      /\ 60 <= a /\ a < 3600 => u = a1 /\ a1 \in 1 .. 59
      /\ 3600 <= a /\ a < 86400 => u = 60 + a2 /\ a2 \in 1 .. 23
      /\ 86400 <= a /\ a < 172800 => u = 85
      /\ 172800 <= a => u = 84 + a3 /\ a3 \in Nat /\ a3 >= 2
  BY <1>1
<1>4. /\ b = 0 \/ b >= 60
      /\ b = 0 => v = 0
      /\ 60 <= b /\ b < 3600 => v = b1 /\ b1 \in 1 .. 59
      /\ 3600 <= b /\ b < 86400 => v = 60 + b2 /\ b2 \in 1 .. 23
      /\ 86400 <= b /\ b < 172800 => v = 85
      /\ 172800 <= b => v = 84 + b3 /\ b3 \in Nat /\ b3 >= 2
  BY <1>1
<1>5. a1 <= b1 /\ a2 <= b2 /\ a3 <= b3
  BY <1>2
<1> HIDE DEF u, v, a1, b1, a2, b2, a3, b3
<1>6. u \in Nat /\ v \in Nat /\ u <= v
  BY <1>3, <1>4, <1>5
<1> QED
  BY <1>6 DEF u, v

(* Each time a row is drawn its labels have only moved on                  *)
(* (calculateStartTime, calculateCreatedTime).                             *)
THEOREM LabelsNeverBack == DateSpec => LabelsMoveOn
<1>1. DatesInv /\ [DateNext]_dateVars =>
        (room # NotMade /\ room' = room =>
           /\ StartTime(room.start, now') <= StartTime(room.start, now)
           /\ LET before == CreatedTime(room.created, now)
                  after == CreatedTime(room.created, now')
              IN before # Nothing /\ after # Nothing =>
                   /\ before <= after
                   /\ NewLabelShown(room.created, now')
                        => NewLabelShown(room.created, now))
  <2> SUFFICES ASSUME DatesInv, [DateNext]_dateVars, room # NotMade, room' = room
               PROVE  /\ StartTime(room.start, now') <= StartTime(room.start, now)
                      /\ LET before == CreatedTime(room.created, now)
                             after == CreatedTime(room.created, now')
                         IN before # Nothing /\ after # Nothing =>
                              /\ before <= after
                              /\ NewLabelShown(room.created, now')
                                   => NewLabelShown(room.created, now)
    OBVIOUS
  <2>1. now \in Nat /\ now' \in Nat /\ now <= now'
    <3>1. now \in Nat /\ DatesInv'
      BY DatesStep DEF DatesInv, FormDates
    <3>2. now' \in Nat
      BY <3>1 DEF DatesInv, FormDates
    <3>3. now' = now \/ now' > now
      BY DEF DateNext, Tick, MakePicker, TurnPicker, DidTapSetGameStartDate,
             PopForm, MakeRoom, dateVars
    <3> QED
      BY <3>1, <3>2, <3>3
  <2>2. room.start \in Nat /\ room.created \in Int
    BY DEF DatesInv, RoomDates, NoDate
  <2>3. StartTime(room.start, now') <= StartTime(room.start, now)
    BY <2>1, <2>2, StartTimeFalls
  <2> DEFINE before == CreatedTime(room.created, now)
             after == CreatedTime(room.created, now')
  <2>4. ASSUME before # Nothing, after # Nothing
        PROVE  before \in Nat /\ after \in Nat /\ before <= after
    <3>1. now - room.created \in Int /\ now' - room.created \in Int
          /\ now - room.created <= now' - room.created
      BY <2>1, <2>2
    <3> QED
      BY <2>4, <3>1, CreatedWordsRise DEF CreatedTime
  <2> HIDE DEF before, after
  <2>5. ASSUME before # Nothing, after # Nothing, after \in {Minutes(n) : n \in 0 .. 5}
        PROVE  before \in {Minutes(n) : n \in 0 .. 5}
    <3>1. after \in 0 .. 5
      BY <2>5 DEF Minutes
    <3>2. before \in 0 .. 5
      BY <2>4, <2>5, <3>1
    <3> QED
      BY <3>2 DEF Minutes
  <2> QED
    BY <2>3, <2>4, <2>5 DEF before, after, NewLabelShown
<1> QED
  BY <1>1, DatesInvariance, PTL DEF DateSpec, LabelsMoveOn

-----------------------------------------------------------------------------
(* JoinGame.  An answer is for the join screen that asked, and only the    *)
(* identity of that screen is compared: what has to be preserved is that   *)
(* no new screen takes the identity of one that still awaits an answer, so *)
(* that an answer that is let in speaks of the room on show.               *)

Join == [screen : Screens, room : Rooms, result : {"none", "seat", "refused"}]

\* The stack: a join screen is for the room of the shared model.
ScreenHasRoom ==
  IF top = "home" THEN joinScreen = NoScreen
  ELSE /\ joinScreen.id \in Screens
       /\ joinScreen.room \in Rooms
       /\ selectedRoomPk = joinScreen.room

\* The requests of the join screen on the stack are for its room.
AskedForRoom ==
  \A i \in DOMAIN joins :
    joins[i].screen = joinScreen.id => joins[i].room = joinScreen.room

\* A seat is only promised by a backend that has given it.
SeatIsTaken ==
  \A i \in DOMAIN joins : joins[i].result = "seat" => joins[i].room \in members

\* The chat, also the one whose second push stops the app.
ChatHasSeat == top \in {"chat", "crash"} => joinScreen.room \in members

\* Without a second tap no screen has two requests in flight, and none is in
\* flight for a screen whose chat is on top.
OneTapOneAnswer ==
  ~hurried =>
    /\ \A i, j \in DOMAIN joins : joins[i].screen = joins[j].screen => i = j
    /\ top = "chat" => \A i \in DOMAIN joins : joins[i].screen # joinScreen.id

JoinInv ==
  /\ JoinTypeOK
  /\ Len(joins) <= MaxJoins
  /\ ScreenHasRoom
  /\ AskedForRoom
  /\ SeatIsTaken
  /\ ChatHasSeat
  /\ OneTapOneAnswer
  /\ SeatsAreKnown
  /\ CrashNeedsSecondTap

-----------------------------------------------------------------------------
\* What the lemmas about sequences say of the requests.
LEMMA JoinsType ==
  ASSUME JoinTypeOK
  PROVE  /\ joins \in Seq(Join)
         /\ Len(joins) \in Nat /\ DOMAIN joins = 1..Len(joins)
         /\ \A i \in DOMAIN joins : joins[i] \in Join
<1>1. joins \in Seq(Join)
  BY DEF JoinTypeOK, Join
<1> QED
  BY <1>1, LenProperties, ElementOfSeq

\* The new join screen has an identity that no request waits for.
LEMMA NewScreenIsNew ==
  ASSUME JoinTypeOK, Len(joins) <= MaxJoins, NEW r \in Rooms, ViewDidLoad(r)
  PROVE  /\ joinScreen'.id \in Screens
         /\ joinScreen' \in [id : Screens \cup {0}, room : Rooms \cup {NoRoom}]
         /\ joinScreen'.room = r
         /\ \A i \in DOMAIN joins : joins[i].screen # joinScreen'.id
<1>1. /\ MaxJoins \in Nat /\ Len(joins) \in Nat /\ DOMAIN joins = 1..Len(joins)
      /\ Len(joins) <= MaxJoins
  BY JoinsType, JoinGameAssumption
<1>2. \E v \in 1..(MaxJoins + 1) : \A i \in DOMAIN joins : joins[i].screen # v
  <2> SUFFICES ASSUME \A v \in 1..(MaxJoins + 1) :
                        \E i \in DOMAIN joins : joins[i].screen = v
               PROVE  FALSE
    OBVIOUS
  <2> DEFINE f == [v \in 1..(MaxJoins + 1) |->
                     CHOOSE i \in DOMAIN joins : joins[i].screen = v]
  <2>1. /\ f \in [1..(MaxJoins + 1) -> 1..Len(joins)]
        /\ \A v \in 1..(MaxJoins + 1) : joins[f[v]].screen = v
    BY <1>1
  <2> HIDE DEF f
  <2>2. \E x, y \in 1..(MaxJoins + 1) : x # y /\ f[x] = f[y]
    BY <1>1, <2>1, TakenTwice
  <2> QED
    BY <2>1, <2>2
<1>3. NewScreens # {} /\ NewScreens \subseteq Nat
  <2>1. PICK v \in Screens : \A i \in DOMAIN joins : joins[i].screen # v
    BY <1>1, <1>2 DEF Screens
  <2>2. v \in NewScreens
    BY <2>1 DEF NewScreens
  <2> QED
    BY <2>2 DEF NewScreens, Screens
<1>4. \E s \in NewScreens : \A t \in NewScreens : s <= t
  BY <1>3, LeastNumber
<1>5. joinScreen'.id \in NewScreens /\ joinScreen'.room = r
  BY <1>4 DEF ViewDidLoad
<1>6. joinScreen' \in [id : Screens \cup {0}, room : Rooms \cup {NoRoom}]
  BY <1>4 DEF ViewDidLoad, NewScreens
<1> QED
  BY <1>5, <1>6 DEF NewScreens

\* Taking a request out leaves the facts about the others as they were.
LEMMA AnswerTakenOut ==
  ASSUME JoinInv, NEW i \in DOMAIN joins, joins' = RemoveAt(joins, i)
  PROVE  /\ joins' \in Seq(Join)
         /\ Len(joins') <= MaxJoins
         /\ \A j \in DOMAIN joins' : \E k \in DOMAIN joins \ {i} : joins'[j] = joins[k]
         /\ \A k \in DOMAIN joins \ {i} : \E j \in DOMAIN joins' : joins'[j] = joins[k]
         /\ ~hurried =>
              /\ \A j, k \in DOMAIN joins' :
                   joins'[j].screen = joins'[k].screen => j = k
              /\ \A j \in DOMAIN joins' : joins'[j].screen # joins[i].screen
<1>1. joins \in Seq(Join) /\ Len(joins) \in Nat /\ DOMAIN joins = 1..Len(joins)
  BY JoinsType, SMTT(60) DEF JoinInv
<1>2. /\ joins' \in Seq(Join)
      /\ Len(joins') = Len(joins) - 1
      /\ \A j \in 1..(Len(joins) - 1) :
           joins'[j] = IF j < i THEN joins[j] ELSE joins[j + 1]
  BY <1>1, RemoveAtProperties, ZenonT(60)
<1>3. DOMAIN joins' = 1..(Len(joins) - 1)
  BY <1>2, LenProperties
<1>4. Len(joins') <= MaxJoins
  BY <1>1, <1>2, JoinGameAssumption DEF JoinInv
<1>5. /\ \A j \in DOMAIN joins' : \E k \in DOMAIN joins \ {i} : joins'[j] = joins[k]
      /\ \A k \in DOMAIN joins \ {i} : \E j \in DOMAIN joins' : joins'[j] = joins[k]
  <2>1. ASSUME NEW j \in DOMAIN joins'
        PROVE  \E k \in DOMAIN joins \ {i} : joins'[j] = joins[k]
    <3>1. (IF j < i THEN j ELSE j + 1) \in DOMAIN joins \ {i}
      BY <1>1, <1>3
    <3> QED
      BY <1>2, <1>3, <3>1
  <2>2. ASSUME NEW k \in DOMAIN joins \ {i}
        PROVE  \E j \in DOMAIN joins' : joins'[j] = joins[k]
    <3>1. CASE k < i
      BY <1>1, <1>2, <1>3, <3>1
    <3>2. CASE ~(k < i)
      <4>1. k - 1 \in 1..(Len(joins) - 1) /\ ~(k - 1 < i) /\ (k - 1) + 1 = k
        BY <1>1, <3>2
      <4> QED
        BY <1>2, <1>3, <4>1
    <3> QED
      BY <3>1, <3>2
  <2> QED
    BY <2>1, <2>2
<1>6. ASSUME ~hurried
      PROVE  /\ \A j, k \in DOMAIN joins' :
                  joins'[j].screen = joins'[k].screen => j = k
             /\ \A j \in DOMAIN joins' : joins'[j].screen # joins[i].screen
  <2>1. \A j, k \in DOMAIN joins : joins[j].screen = joins[k].screen => j = k
    BY <1>6 DEF JoinInv, OneTapOneAnswer
  <2>2. \A j \in DOMAIN joins' : joins'[j].screen # joins[i].screen
    BY <1>5, <2>1
  <2>3. ASSUME NEW j \in DOMAIN joins', NEW k \in DOMAIN joins',
               joins'[j].screen = joins'[k].screen
        PROVE  j = k
    <3>1. /\ joins'[j] = joins[IF j < i THEN j ELSE j + 1]
          /\ joins'[k] = joins[IF k < i THEN k ELSE k + 1]
          /\ (IF j < i THEN j ELSE j + 1) \in DOMAIN joins
          /\ (IF k < i THEN k ELSE k + 1) \in DOMAIN joins
      BY <1>1, <1>2, <1>3
    <3>2. (IF j < i THEN j ELSE j + 1) = (IF k < i THEN k ELSE k + 1)
      BY <2>1, <2>3, <3>1
    <3> QED
      BY <1>1, <1>3, <3>2
  <2> QED
    BY <2>2, <2>3
<1> QED
  BY <1>2, <1>4, <1>5, <1>6

-----------------------------------------------------------------------------
\* The invariant holds when the list is shown for the first time.
LEMMA JoinsInit == JoinInit => JoinInv
<1> SUFFICES ASSUME JoinInit PROVE JoinInv
  OBVIOUS
<1>1. joins = <<>> /\ Len(joins) = 0 /\ DOMAIN joins = {}
  BY DEF JoinInit
<1>2. joins \in Seq(Join)
  BY <1>1, EmptySeq
<1>3. JoinTypeOK
  <2>1. free \in [Rooms -> 0..Seats]
    BY JoinGameAssumption DEF JoinInit
  <2>2. joinScreen \in [id : Screens \cup {0}, room : Rooms \cup {NoRoom}]
    BY DEF JoinInit, NoScreen
  <2> QED
    BY <1>2, <2>1, <2>2 DEF JoinInit, JoinTypeOK, Join
<1> QED
  BY <1>1, <1>3, JoinGameAssumption
     DEF JoinInit, JoinInv, ScreenHasRoom, AskedForRoom, SeatIsTaken, ChatHasSeat,
         OneTapOneAnswer, SeatsAreKnown, CrashNeedsSecondTap

\* Other players only change the rooms.
LEMMA WorldStep ==
  ASSUME JoinInv, NEW r \in Rooms, OtherJoins(r) \/ Starts(r)
  PROVE  JoinInv'
<1>1. /\ UNCHANGED <<members, top, joinScreen, joinEnabled, selectedRoomPk,
                     joins, hurried, entered, slipped>>
      /\ free' \in [Rooms -> 0..Seats] /\ started' \subseteq Rooms
  <2>1. Seats \in Nat /\ free \in [Rooms -> 0..Seats] /\ started \subseteq Rooms
    BY JoinGameAssumption DEF JoinInv, JoinTypeOK
  <2>2. CASE OtherJoins(r)
    BY <2>1, <2>2 DEF OtherJoins
  <2>3. CASE Starts(r)
    BY <2>1, <2>3 DEF Starts
  <2> QED
    BY <2>2, <2>3
<1> QED
  BY <1>1 DEF JoinInv, JoinTypeOK, ScreenHasRoom, AskedForRoom, SeatIsTaken,
              ChatHasSeat, OneTapOneAnswer, SeatsAreKnown, CrashNeedsSecondTap

\* Moving on the stack: a new join screen has no requests.
LEMMA StackStep ==
  ASSUME JoinInv, (\E r \in Rooms : DidSelectRow(r)) \/ PopChat \/ PopJoin
  PROVE  JoinInv'
<1> USE DEF JoinInv
<1>1. ASSUME NEW r \in Rooms, DidSelectRow(r) PROVE JoinInv'
  <2>1. ViewDidLoad(r)
    BY <1>1 DEF DidSelectRow
  <2>2. /\ joinScreen'.id \in Screens
        /\ joinScreen' \in [id : Screens \cup {0}, room : Rooms \cup {NoRoom}]
        /\ joinScreen'.room = r
        /\ \A i \in DOMAIN joins : joins[i].screen # joinScreen'.id
    BY <2>1, NewScreenIsNew
  <2>3. /\ top' = "join" /\ selectedRoomPk' = r /\ joinEnabled' \in BOOLEAN
        /\ UNCHANGED <<free, started, members, joins, hurried, entered, slipped>>
    BY <1>1 DEF DidSelectRow, ViewDidLoad, backVars
  <2>4. JoinTypeOK'
    BY <2>2, <2>3 DEF JoinTypeOK
  <2> QED
    BY <2>2, <2>3, <2>4
       DEF ScreenHasRoom, AskedForRoom, SeatIsTaken, ChatHasSeat,
           OneTapOneAnswer, SeatsAreKnown, CrashNeedsSecondTap
<1>2. CASE PopChat
  BY <1>2 DEF PopChat, backVars, JoinTypeOK, ScreenHasRoom, AskedForRoom,
     SeatIsTaken, ChatHasSeat, OneTapOneAnswer, SeatsAreKnown,
     CrashNeedsSecondTap
<1>3. CASE PopJoin
  <2>1. /\ top' = "home" /\ joinScreen' = NoScreen /\ joinEnabled' = FALSE
        /\ UNCHANGED <<free, started, members, selectedRoomPk, joins, hurried,
                       entered, slipped>>
    BY <1>3 DEF PopJoin, backVars
  <2>2. \A i \in DOMAIN joins : joins[i].screen # 0
    BY JoinsType DEF Join, Screens
  <2>3. JoinTypeOK'
    BY <2>1 DEF JoinTypeOK, NoScreen
  <2>4. AskedForRoom'
    BY <2>1, <2>2 DEF AskedForRoom, NoScreen
  <2> QED
    BY <2>1, <2>3, <2>4
       DEF ScreenHasRoom, SeatIsTaken, ChatHasSeat, OneTapOneAnswer,
           SeatsAreKnown, CrashNeedsSecondTap
<1> QED
  BY <1>1, <1>2, <1>3

\* The request is for the room on show.
LEMMA TapStep ==
  ASSUME JoinInv, DidTapJoinButton
  PROVE  JoinInv'
<1> DEFINE new == [screen |-> joinScreen.id, room |-> selectedRoomPk,
                   result |-> "none"]
<1>1. /\ joins \in Seq(Join) /\ Len(joins) \in Nat /\ DOMAIN joins = 1..Len(joins)
      /\ \A i \in DOMAIN joins : joins[i] \in Join
  BY JoinsType DEF JoinInv
<1>2. /\ top = "join" /\ Len(joins) < MaxJoins /\ joins' = Append(joins, new)
      /\ hurried' = (hurried \/ \E i \in DOMAIN joins : joins[i].screen = joinScreen.id)
      /\ UNCHANGED <<free, started, members, top, joinScreen, joinEnabled,
                     selectedRoomPk, entered, slipped>>
  BY DEF DidTapJoinButton, backVars
<1>3. joinScreen.id \in Screens /\ selectedRoomPk \in Rooms
      /\ selectedRoomPk = joinScreen.room
  BY <1>2 DEF JoinInv, ScreenHasRoom
<1>4. new \in Join /\ new.screen = joinScreen.id /\ new.room = joinScreen.room
      /\ new.result = "none"
  BY <1>3 DEF Join
<1> HIDE DEF new
<1>5. /\ joins' \in Seq(Join) /\ Len(joins') = Len(joins) + 1
      /\ \A i \in 1..Len(joins) : joins'[i] = joins[i]
      /\ joins'[Len(joins) + 1] = new
  BY <1>1, <1>2, <1>4, AppendProperties
<1>6. DOMAIN joins' = DOMAIN joins \cup {Len(joins) + 1}
  BY <1>1, <1>5, LenProperties
<1>7. JoinTypeOK' /\ Len(joins') <= MaxJoins
  <2>1. hurried' \in BOOLEAN
    BY <1>2 DEF JoinInv, JoinTypeOK
  <2> QED
    BY <1>1, <1>2, <1>5, <2>1, JoinGameAssumption DEF JoinInv, JoinTypeOK, Join
<1>8. AskedForRoom' /\ SeatIsTaken'
  BY <1>1, <1>2, <1>4, <1>5, <1>6 DEF JoinInv, AskedForRoom, SeatIsTaken
<1>9. OneTapOneAnswer'
  <2> SUFFICES ASSUME ~hurried'
               PROVE  \A i, j \in DOMAIN joins' :
                        joins'[i].screen = joins'[j].screen => i = j
    BY <1>2 DEF OneTapOneAnswer
  <2>1. /\ \A i \in DOMAIN joins : joins[i].screen # joinScreen.id
        /\ \A i, j \in DOMAIN joins : joins[i].screen = joins[j].screen => i = j
    BY <1>2 DEF JoinInv, OneTapOneAnswer
  <2>2. \A i \in DOMAIN joins : joins'[i] = joins[i]
    BY <1>1, <1>5
  <2> QED
    BY <1>4, <1>5, <1>6, <2>1, <2>2
<1>10. SeatsAreKnown'
  BY <1>1, <1>2, <1>5, <1>6 DEF JoinInv, SeatsAreKnown
<1> QED
  BY <1>2, <1>7, <1>8, <1>9, <1>10
     DEF JoinInv, ScreenHasRoom, ChatHasSeat, CrashNeedsSecondTap

\* The backend answers a request, and may give a seat.
LEMMA BackendStep ==
  ASSUME JoinInv, NEW i \in DOMAIN joins, BackendSeats(i)
  PROVE  JoinInv'
<1>1. /\ joins \in Seq(Join) /\ Len(joins) \in Nat /\ DOMAIN joins = 1..Len(joins)
      /\ \A j \in DOMAIN joins : joins[j] \in Join
  BY JoinsType DEF JoinInv
<1>2. UNCHANGED <<started, top, joinScreen, joinEnabled, selectedRoomPk,
                  hurried, entered, slipped>>
  BY DEF BackendSeats
<1>3. PICK result \in {"seat", "refused"} :
        /\ joins' = [joins EXCEPT ![i].result = result]
        /\ result = "seat" => joins[i].room \in members'
        /\ \/ UNCHANGED <<members, free>>
           \/ /\ members' = members \cup {joins[i].room}
              /\ free[joins[i].room] > 0
              /\ free' = [free EXCEPT ![joins[i].room] = @ - 1]
              /\ result = "seat"
  BY DEF BackendSeats
<1>4. joins[i].room \in Rooms
  BY <1>1 DEF Join
<1>5. /\ joins' \in Seq(Join) /\ Len(joins') = Len(joins)
      /\ DOMAIN joins' = DOMAIN joins
      /\ \A j \in DOMAIN joins : /\ joins'[j].screen = joins[j].screen
                                 /\ joins'[j].room = joins[j].room
                                 /\ joins'[j].result = IF j = i THEN result
                                                       ELSE joins[j].result
  <2> DEFINE e == [joins[i] EXCEPT !.result = result]
  <2>1. /\ e \in Join /\ e.screen = joins[i].screen /\ e.room = joins[i].room
        /\ e.result = result
    BY <1>1 DEF Join
  <2>2. joins' = [joins EXCEPT ![i] = e]
    BY <1>3
  <2> HIDE DEF e
  <2>3. /\ joins' \in Seq(Join) /\ Len(joins') = Len(joins)
        /\ \A j \in 1..Len(joins) : joins'[j] = IF j = i THEN e ELSE joins[j]
    BY <1>1, <2>1, <2>2, ExceptSeq
  <2>4. DOMAIN joins' = DOMAIN joins
    BY <1>1, <2>3, LenProperties
  <2> QED
    BY <1>1, <2>1, <2>3, <2>4
<1>6. /\ members \subseteq members' /\ members' \subseteq Rooms
      /\ members' \subseteq members \cup {joins[i].room}
      /\ free' \in [Rooms -> 0..Seats]
  <2>1. /\ Seats \in Nat /\ free \in [Rooms -> 0..Seats] /\ members \subseteq Rooms
    BY JoinGameAssumption DEF JoinInv, JoinTypeOK
  <2> QED
    BY <1>3, <1>4, <2>1
<1>7. JoinTypeOK' /\ Len(joins') <= MaxJoins
  BY <1>2, <1>5, <1>6 DEF JoinInv, JoinTypeOK, Join
<1>8. AskedForRoom' /\ SeatIsTaken'
  BY <1>2, <1>3, <1>5, <1>6 DEF JoinInv, AskedForRoom, SeatIsTaken
<1>9. ScreenHasRoom' /\ ChatHasSeat' /\ CrashNeedsSecondTap'
  BY <1>2, <1>6 DEF JoinInv, ScreenHasRoom, ChatHasSeat, CrashNeedsSecondTap
<1>10. OneTapOneAnswer'
  BY <1>2, <1>5 DEF JoinInv, OneTapOneAnswer
<1>11. SeatsAreKnown'
  <2> SUFFICES ASSUME NEW r \in members'
               PROVE  \/ r \in entered \cup slipped
                      \/ \E j \in DOMAIN joins : joins'[j].room = r
                                              /\ joins'[j].result = "seat"
    BY <1>2, <1>5 DEF SeatsAreKnown
  <2>1. CASE r \in members
    <3>1. \/ r \in entered \cup slipped
          \/ \E j \in DOMAIN joins : joins[j].room = r /\ joins[j].result = "seat"
      BY <2>1 DEF JoinInv, SeatsAreKnown
    <3>2. joins[i].result = "none"
      BY DEF BackendSeats
    <3> QED
      BY <1>5, <3>1, <3>2
  <2>2. CASE r \notin members
    BY <1>3, <1>5, <2>2
  <2> QED
    BY <2>1, <2>2
<1> QED
  BY <1>7, <1>8, <1>9, <1>10, <1>11 DEF JoinInv

\* An answer arrives, or none will.
LEMMA AnswerStep ==
  ASSUME JoinInv, top # "crash", NEW i \in DOMAIN joins, ReceiveJoin(i) \/ JoinFails(i)
  PROVE  JoinInv'
<1>1. /\ joins \in Seq(Join) /\ \A j \in DOMAIN joins : joins[j] \in Join
      /\ joins[i].room \in Rooms
  BY JoinsType DEF JoinInv, Join
<1>2. /\ joins' = RemoveAt(joins, i)
      /\ UNCHANGED <<free, started, members, joinScreen, joinEnabled,
                     selectedRoomPk, hurried>>
  BY DEF ReceiveJoin, JoinFails, backVars
<1>3. /\ joins' \in Seq(Join)
      /\ Len(joins') <= MaxJoins
      /\ \A j \in DOMAIN joins' : \E k \in DOMAIN joins \ {i} : joins'[j] = joins[k]
      /\ \A k \in DOMAIN joins \ {i} : \E j \in DOMAIN joins' : joins'[j] = joins[k]
      /\ ~hurried =>
           /\ \A j, k \in DOMAIN joins' : joins'[j].screen = joins'[k].screen => j = k
           /\ \A j \in DOMAIN joins' : joins'[j].screen # joins[i].screen
  BY <1>2, AnswerTakenOut
<1>4. AskedForRoom' /\ SeatIsTaken'
  BY <1>2, <1>3, SMTT(60) DEF JoinInv, AskedForRoom, SeatIsTaken
<1>5. ASSUME entered \subseteq entered', slipped \subseteq slipped',
             entered' \subseteq Rooms, slipped' \subseteq Rooms,
             joins[i].result = "seat" => joins[i].room \in entered' \cup slipped'
      PROVE  SeatsAreKnown'
  BY <1>2, <1>3, <1>5 DEF JoinInv, SeatsAreKnown
<1>6. CASE /\ top' = top /\ entered' = entered
           /\ slipped' = IF joins[i].result = "seat" THEN slipped \cup {joins[i].room}
                                                     ELSE slipped
  <2>1. entered \subseteq Rooms /\ slipped \subseteq Rooms
    BY DEF JoinInv, JoinTypeOK
  <2>2. SeatsAreKnown'
    BY <1>1, <1>5, <1>6, <2>1
  <2>3. JoinTypeOK'
    BY <1>1, <1>2, <1>3, <1>6, <2>1 DEF JoinInv, JoinTypeOK, Join
  <2>4. OneTapOneAnswer'
    BY <1>2, <1>3, <1>6, SMTT(60) DEF JoinInv, OneTapOneAnswer
  <2> QED
    BY <1>2, <1>3, <1>4, <1>6, <2>2, <2>3, <2>4
       DEF JoinInv, ScreenHasRoom, ChatHasSeat, CrashNeedsSecondTap
<1>7. CASE /\ joins[i].result = "seat" /\ joins[i].screen = joinScreen.id
           /\ top' = IF top = "chat" THEN "crash" ELSE "chat"
           /\ entered' = entered \cup {joinScreen.room}
           /\ slipped' = slipped
  <2>1. joins[i].room = joinScreen.room /\ joins[i].room \in members
    BY <1>7 DEF JoinInv, AskedForRoom, SeatIsTaken
  <2>2. top # "home"
    <3>1. joins[i].screen # 0
      BY <1>1 DEF Join, Screens
    <3> QED
      BY <1>7, <3>1 DEF JoinInv, ScreenHasRoom, NoScreen
  <2>3. entered \subseteq Rooms /\ slipped \subseteq Rooms
    BY DEF JoinInv, JoinTypeOK
  <2>4. SeatsAreKnown'
    BY <1>1, <1>5, <1>7, <2>1, <2>3
  <2>5. JoinTypeOK'
    BY <1>1, <1>2, <1>3, <1>7, <2>1, <2>3 DEF JoinInv, JoinTypeOK, Join
  <2>6. ScreenHasRoom' /\ ChatHasSeat'
    BY <1>2, <1>7, <2>1, <2>2 DEF JoinInv, ScreenHasRoom, ChatHasSeat
  <2>7. OneTapOneAnswer' /\ CrashNeedsSecondTap'
    BY <1>2, <1>3, <1>7 DEF JoinInv, OneTapOneAnswer, CrashNeedsSecondTap
  <2> QED
    BY <1>3, <1>4, <2>4, <2>5, <2>6, <2>7 DEF JoinInv
<1> QED
  <2>1. CASE ReceiveJoin(i)
    BY <1>1, <1>6, <1>7, <2>1 DEF ReceiveJoin, Join
  <2>2. CASE JoinFails(i)
    BY <1>6, <2>2 DEF JoinFails
  <2> QED
    BY <2>1, <2>2

LEMMA JoinsStep == JoinInv /\ [JoinNext]_joinVars => JoinInv'
<1> SUFFICES ASSUME JoinInv, [JoinNext]_joinVars PROVE JoinInv'
  OBVIOUS
<1>1. CASE UNCHANGED joinVars
  BY <1>1 DEF joinVars, backVars, JoinInv, JoinTypeOK, ScreenHasRoom, AskedForRoom,
     SeatIsTaken, ChatHasSeat, OneTapOneAnswer, SeatsAreKnown,
     CrashNeedsSecondTap
<1>2. CASE JoinNext
  BY <1>2, WorldStep, StackStep, TapStep, BackendStep, AnswerStep DEF JoinNext, Move
<1> QED
  BY <1>1, <1>2

LEMMA JoinsInvariance == JoinSpec => []JoinInv
BY JoinsInit, JoinsStep, PTL DEF JoinSpec

-----------------------------------------------------------------------------
(* Theorems *)

\* A chat is only entered with a seat in its room: whatever answers come
\* late, twice or for a screen that was left (SelectJoinGame:120-145).
THEOREM SeatBeforeChat == JoinSpec => []ChatOnlyWithSeat
<1>1. JoinInv => ChatOnlyWithSeat
  BY DEF JoinInv, ChatHasSeat, ChatOnlyWithSeat
<1> QED
  BY <1>1, JoinsInvariance, PTL

\* No seat is forgotten but by an answer that was lost or came too late.
THEOREM EverySeatIsKnown == JoinSpec => []SeatsAreKnown
<1>1. JoinInv => SeatsAreKnown
  BY DEF JoinInv
<1> QED
  BY <1>1, JoinsInvariance, PTL

\* One tap at a time never stops the app, however slow the answers are.
THEOREM CrashTakesTwoTaps == JoinSpec => []CrashNeedsSecondTap
<1>1. JoinInv => CrashNeedsSecondTap
  BY DEF JoinInv
<1> QED
  BY <1>1, JoinsInvariance, PTL

-----------------------------------------------------------------------------
(* MakeMatching.  The home list is on top exactly when no form is on the   *)
(* stack, and a clean form and the model agree field by field.             *)

\* A form is open unless the home list is on top.
FormOnStack == screen = "home" <=> form = 0

\* The inductive invariant.
MatchInv ==
  /\ TypeOK
  /\ FormOnStack
  /\ Len(requests) <= MaxRequests
  /\ CleanFormShowsModel

\* Records of the form are equal when their fields are.
LEMMA SameFields ==
  ASSUME NEW m, NEW r,
         m = [title |-> m.title, count |-> m.count, game |-> m.game, voice |-> m.voice,
              lowest |-> m.lowest, highest |-> m.highest],
         r = [title |-> r.title, count |-> r.count, game |-> r.game, voice |-> r.voice,
              lowest |-> r.lowest, highest |-> r.highest],
         m.title = r.title, m.count = r.count, m.game = r.game, m.voice = r.voice,
         m.lowest = r.lowest, m.highest = r.highest
  PROVE  m = r
BY ZenonT(60)

LEMMA TrueOrFalse ==
  ASSUME NEW S, NEW x, x = (TRUE \in S)
  PROVE  x = TRUE \/ x = FALSE
<1>1. x \in BOOLEAN
  BY SMT
<1>2. \A y \in BOOLEAN : y = TRUE \/ y = FALSE
  OBVIOUS
<1> QED
  BY <1>1, <1>2

\* The end of the scale for "all tiers", of a choice c.
TierOf(c, end) == IF c = AllTier THEN end ELSE c

\* A model m and a display d agree field by field.
Agree(m, d) ==
  /\ m.title = d.title /\ m.count = d.count /\ m.game = d.game
  /\ m.voice <=> (TRUE \in d.voice)
  /\ m.lowest = TierOf(d.lowest, 0) /\ m.highest = TierOf(d.highest, TopTier)

\* So a model is what a display shows exactly when they agree.
LEMMA FieldsAgree ==
  ASSUME NEW m \in Model, NEW d \in Display
  PROVE  m = AsModel(d) <=> Agree(m, d)
<1> DEFINE r == AsModel(d)
<1>1. m = [title |-> m.title, count |-> m.count, game |-> m.game, voice |-> m.voice,
           lowest |-> m.lowest, highest |-> m.highest]
  BY DEF Model
<1>2. m.voice \in BOOLEAN
  BY DEF Model
<1>3. /\ r.title = d.title /\ r.count = d.count /\ r.game = d.game
      /\ r.lowest = TierOf(d.lowest, 0) /\ r.highest = TierOf(d.highest, TopTier)
  BY DEF AsModel, TierOf
<1>4. r.voice <=> (TRUE \in d.voice)
  BY Zenon DEF AsModel
<1>7. r.voice = TRUE \/ r.voice = FALSE
  <2>1. r.voice = (TRUE \in d.voice)
    BY Zenon DEF AsModel
  <2> HIDE DEF r
  <2> QED
    BY <2>1, TrueOrFalse, Zenon
<1>8. r = [title |-> r.title, count |-> r.count, game |-> r.game, voice |-> r.voice,
           lowest |-> r.lowest, highest |-> r.highest]
  BY Zenon DEF AsModel
<1> HIDE DEF r
<1>5. ASSUME m = r PROVE Agree(m, d)
  BY <1>3, <1>4, <1>5, Zenon DEF Agree
<1>6. ASSUME Agree(m, d) PROVE m = r
  <2>1. m.voice = r.voice
    <3>1. m.voice <=> r.voice
      BY <1>4, <1>6, Zenon DEF Agree
    <3>2. m.voice = TRUE \/ m.voice = FALSE
      BY <1>2
    <3>3. CASE m.voice = TRUE
      BY <1>7, <3>1, <3>3, Zenon
    <3>4. CASE m.voice = FALSE
      BY <1>7, <3>1, <3>4, Zenon
    <3> QED
      BY <3>2, <3>3, <3>4, Zenon
  <2>2. /\ m.title = r.title /\ m.count = r.count /\ m.game = r.game
        /\ m.lowest = r.lowest /\ m.highest = r.highest
    BY <1>3, <1>6, Zenon DEF Agree
  <2> QED
    BY <1>1, <1>8, <2>1, <2>2, SameFields
<1> QED
  BY <1>5, <1>6 DEF r

\* A form that was just opened shows an initialized model.
LEMMA FreshShowsInitialized ==
  /\ Initialized \in Model /\ Fresh \in Display
  /\ Initialized = AsModel(Fresh)
<1>1. TopTier \in Nat
  BY MakeMatchingAssumption
<1>2. Initialized \in Model /\ Fresh \in Display
  BY <1>1 DEF Initialized, Model, Fresh, Display, TierChoices, Tiers
<1>3. /\ Initialized.title = Fresh.title /\ Initialized.count = Fresh.count
      /\ Initialized.game = Fresh.game
      /\ Initialized.lowest = TierOf(Fresh.lowest, 0)
      /\ Initialized.highest = TierOf(Fresh.highest, TopTier)
  BY DEF Initialized, Fresh, TierOf
<1>4. Initialized.voice <=> (TRUE \in Fresh.voice)
  BY DEF Initialized, Fresh
<1> QED
  BY <1>2, <1>3, <1>4, FieldsAgree, Zenon DEF Agree

LEMMA MatchInit == Init => MatchInv
<1> SUFFICES ASSUME Init PROVE MatchInv
  OBVIOUS
<1>1. TypeOK
  <2>1. requests \in Seq([form : Forms, step : {"post", "get"}])
    BY DEF Init
  <2> QED
    BY <2>1, FreshShowsInitialized DEF Init, TypeOK
<1>2. Len(requests) <= MaxRequests
  BY MakeMatchingAssumption, EmptySeq DEF Init
<1> QED
  BY <1>1, <1>2 DEF Init, MatchInv, FormOnStack, CleanFormShowsModel

\* Two values of a field, and nothing else, were entered.
LEMMA EnterStep ==
  ASSUME MatchInv, NEW where, NEW m \in Model, NEW d \in Display, Enter(where, m, d),
         model = AsModel(display) => m = AsModel(d)
  PROVE  MatchInv'
<1>1. /\ model' = m /\ display' = d
      /\ UNCHANGED <<screen, form, requests, tabBarHidden, clean>>
  BY DEF Enter
<1>2. TypeOK'
  BY <1>1 DEF MatchInv, TypeOK
<1>3. CleanFormShowsModel'
  BY <1>1 DEF MatchInv, CleanFormShowsModel
<1> QED
  BY <1>1, <1>2, <1>3 DEF MatchInv, FormOnStack

\* What the user enters goes to the model and to the display alike; only the
\* clear button does not, and it ends the form's being clean.
LEMMA FillStep ==
  ASSUME MatchInv, Fill
  PROVE  MatchInv'
<1>1. /\ model \in Model /\ display \in Display
      /\ TopTier \in Nat /\ 0 \in Tiers /\ TopTier \in Tiers /\ AllTier \notin Tiers
      /\ \A c \in TierChoices : c = AllTier \/ c \in Tiers
  BY MakeMatchingAssumption DEF MatchInv, TypeOK, Tiers, TierChoices, AllTier
<1>2. model = AsModel(display) <=> Agree(model, display)
  BY <1>1, FieldsAgree, Zenon
<1>3. ASSUME NEW title \in Titles \cup {Empty}, EditedRoomTitle(title)
      PROVE  MatchInv'
  <2> DEFINE m == [model EXCEPT !.title = title]
             d == [display EXCEPT !.title = title]
  <2>1. m \in Model /\ d \in Display
    BY <1>1 DEF Model, Display
  <2>2. /\ m.title = title /\ d.title = title
        /\ m.count = model.count /\ m.game = model.game /\ m.voice = model.voice
        /\ m.lowest = model.lowest /\ m.highest = model.highest
        /\ d.count = display.count /\ d.game = display.game /\ d.voice = display.voice
        /\ d.lowest = display.lowest /\ d.highest = display.highest
    BY <1>1 DEF Model, Display
  <2>3. Enter("form", m, d)
    BY <1>3 DEF EditedRoomTitle
  <2> HIDE DEF m, d
  <2>4. model = AsModel(display) => m = AsModel(d)
    <3>1. Agree(model, display) => Agree(m, d)
      BY <2>2, Zenon DEF Agree
    <3> QED
      BY <1>2, <2>1, <3>1, FieldsAgree, Zenon
  <2> QED
    BY <2>1, <2>3, <2>4, EnterStep, Zenon
<1>4. ASSUME ClearRoomTitle PROVE MatchInv'
  <2>1. /\ display' = [display EXCEPT !.title = Empty] /\ clean' = FALSE
        /\ UNCHANGED <<screen, form, model, requests, tabBarHidden>>
    BY <1>4 DEF ClearRoomTitle
  <2>2. display' \in Display
    BY <1>1, <2>1 DEF Display
  <2> QED
    BY <2>1, <2>2 DEF MatchInv, TypeOK, FormOnStack, CleanFormShowsModel
<1>5. ASSUME NEW count \in 1..4,
             Enter("form", [model EXCEPT !.count = count], [display EXCEPT !.count = count])
      PROVE  MatchInv'
  <2> DEFINE m == [model EXCEPT !.count = count]
             d == [display EXCEPT !.count = count]
  <2>1. m \in Model /\ d \in Display
    BY <1>1 DEF Model, Display
  <2>2. /\ m.count = count /\ d.count = count
        /\ m.title = model.title /\ m.game = model.game /\ m.voice = model.voice
        /\ m.lowest = model.lowest /\ m.highest = model.highest
        /\ d.title = display.title /\ d.game = display.game /\ d.voice = display.voice
        /\ d.lowest = display.lowest /\ d.highest = display.highest
    BY <1>1 DEF Model, Display
  <2>3. Enter("form", m, d)
    BY <1>5
  <2> HIDE DEF m, d
  <2>4. model = AsModel(display) => m = AsModel(d)
    <3>1. Agree(model, display) => Agree(m, d)
      BY <2>2, Zenon DEF Agree
    <3> QED
      BY <1>2, <2>1, <3>1, FieldsAgree, Zenon
  <2> QED
    BY <2>1, <2>3, <2>4, EnterStep, Zenon
<1>6. ASSUME CountUp PROVE MatchInv'
  <2> DEFINE count == IF model.count >= 4 THEN 4 ELSE model.count + 1
  <2>1. count \in 1..4
    BY <1>1 DEF Model
  <2> QED
    BY <1>5, <1>6, <2>1, Zenon DEF CountUp
<1>7. ASSUME CountDown PROVE MatchInv'
  <2> DEFINE count == IF model.count <= 1 THEN 1 ELSE model.count - 1
  <2>1. count \in 1..4
    BY <1>1 DEF Model
  <2> QED
    BY <1>5, <1>7, <2>1, Zenon DEF CountDown
<1>8. ASSUME NEW game \in Games, DidTapGame(game) PROVE MatchInv'
  <2> DEFINE m == [model EXCEPT !.game = game]
             d == [display EXCEPT !.game = game]
  <2>1. m \in Model /\ d \in Display
    BY <1>1 DEF Model, Display
  <2>2. /\ m.game = game /\ d.game = game
        /\ m.title = model.title /\ m.count = model.count /\ m.voice = model.voice
        /\ m.lowest = model.lowest /\ m.highest = model.highest
        /\ d.title = display.title /\ d.count = display.count /\ d.voice = display.voice
        /\ d.lowest = display.lowest /\ d.highest = display.highest
    BY <1>1 DEF Model, Display
  <2>3. Enter("form", m, d)
    BY <1>8 DEF DidTapGame
  <2> HIDE DEF m, d
  <2>4. model = AsModel(display) => m = AsModel(d)
    <3>1. Agree(model, display) => Agree(m, d)
      BY <2>2, Zenon DEF Agree
    <3> QED
      BY <1>2, <2>1, <3>1, FieldsAgree, Zenon
  <2> QED
    BY <2>1, <2>3, <2>4, EnterStep, Zenon
<1>9. ASSUME NEW possible \in BOOLEAN, DidTapVoiceChat(possible) PROVE MatchInv'
  <2> DEFINE m == [model EXCEPT !.voice = possible]
             d == [display EXCEPT !.voice = {possible}]
  <2>1. m \in Model /\ d \in Display
    BY <1>1 DEF Model, Display
  <2>2. /\ m.title = model.title /\ m.count = model.count /\ m.game = model.game
        /\ m.lowest = model.lowest /\ m.highest = model.highest
        /\ d.title = display.title /\ d.count = display.count /\ d.game = display.game
        /\ d.lowest = display.lowest /\ d.highest = display.highest
        /\ d.voice = {possible}
    BY <1>1 DEF Model, Display
  <2>3. m.voice <=> (TRUE \in d.voice)
    <3>1. m.voice = possible
      BY <1>1 DEF Model
    <3>2. possible <=> (TRUE \in {possible})
      OBVIOUS
    <3> QED
      BY <2>2, <3>1, <3>2, Zenon
  <2>4. Enter("form", m, d)
    BY <1>9 DEF DidTapVoiceChat
  <2> HIDE DEF m, d
  <2>5. model = AsModel(display) => m = AsModel(d)
    <3>1. Agree(model, display) => Agree(m, d)
      BY <2>2, <2>3, Zenon DEF Agree
    <3> QED
      BY <1>2, <2>1, <3>1, FieldsAgree, Zenon
  <2> QED
    BY <2>1, <2>4, <2>5, EnterStep, Zenon
<1>10. ASSUME DidTapChangeTierRange \/ PopTierScreen PROVE MatchInv'
  <2>1. UNCHANGED <<form, model, display, requests, tabBarHidden, clean>>
    BY <1>10 DEF DidTapChangeTierRange, PopTierScreen
  <2>2. screen \in {"form", "tier"} /\ screen' \in {"form", "tier"}
    BY <1>10 DEF DidTapChangeTierRange, PopTierScreen
  <2> QED
    BY <2>1, <2>2 DEF MatchInv, TypeOK, FormOnStack, CleanFormShowsModel
<1>11. ASSUME NEW choice \in TierChoices, DidTapSmallestTier(choice) PROVE MatchInv'
  <2> DEFINE m == [model EXCEPT !.lowest = TierOf(choice, 0)]
             d == [display EXCEPT !.lowest = choice]
  <2>1. m \in Model /\ d \in Display
    BY <1>1 DEF Model, Display, TierOf
  <2>2. /\ m.lowest = TierOf(choice, 0) /\ d.lowest = choice
        /\ m.title = model.title /\ m.count = model.count /\ m.game = model.game
        /\ m.voice = model.voice /\ m.highest = model.highest
        /\ d.title = display.title /\ d.count = display.count /\ d.game = display.game
        /\ d.voice = display.voice /\ d.highest = display.highest
    BY <1>1 DEF Model, Display
  <2>3. Enter("tier", m, d)
    BY <1>11 DEF DidTapSmallestTier, TierOf
  <2> HIDE DEF m, d
  <2>4. model = AsModel(display) => m = AsModel(d)
    <3>1. Agree(model, display) => Agree(m, d)
      BY <2>2, Zenon DEF Agree
    <3> QED
      BY <1>2, <2>1, <3>1, FieldsAgree, Zenon
  <2> QED
    BY <2>1, <2>3, <2>4, EnterStep, Zenon
<1>12. ASSUME NEW choice \in TierChoices, DidTapLargestTier(choice) PROVE MatchInv'
  <2> DEFINE m == [model EXCEPT !.highest = TierOf(choice, TopTier)]
             d == [display EXCEPT !.highest = choice]
  <2>1. m \in Model /\ d \in Display
    BY <1>1 DEF Model, Display, TierOf
  <2>2. /\ m.highest = TierOf(choice, TopTier) /\ d.highest = choice
        /\ m.title = model.title /\ m.count = model.count /\ m.game = model.game
        /\ m.voice = model.voice /\ m.lowest = model.lowest
        /\ d.title = display.title /\ d.count = display.count /\ d.game = display.game
        /\ d.voice = display.voice /\ d.lowest = display.lowest
    BY <1>1 DEF Model, Display
  <2>3. Enter("tier", m, d)
    BY <1>12 DEF DidTapLargestTier, TierOf
  <2> HIDE DEF m, d
  <2>4. model = AsModel(display) => m = AsModel(d)
    <3>1. Agree(model, display) => Agree(m, d)
      BY <2>2, Zenon DEF Agree
    <3> QED
      BY <1>2, <2>1, <3>1, FieldsAgree, Zenon
  <2> QED
    BY <2>1, <2>3, <2>4, EnterStep, Zenon
<1> QED
  BY <1>3, <1>4, <1>6, <1>7, <1>8, <1>9, <1>10, <1>11, <1>12 DEF Fill

\* There is always a name left for a new form, and it gets one.
LEMMA NewFormIsNamed ==
  ASSUME MatchInv, OpenForm
  PROVE  form' \in Forms
<1>1. /\ MaxRequests \in Nat /\ Len(requests) \in Nat
      /\ DOMAIN requests = 1..Len(requests) /\ Len(requests) <= MaxRequests
  BY MakeMatchingAssumption, LenProperties DEF MatchInv, TypeOK
<1>2. \E v \in 1..(MaxRequests + 1) : \A i \in DOMAIN requests : requests[i].form # v
  <2> SUFFICES ASSUME \A v \in 1..(MaxRequests + 1) :
                        \E i \in DOMAIN requests : requests[i].form = v
               PROVE  FALSE
    OBVIOUS
  <2> DEFINE f == [v \in 1..(MaxRequests + 1) |->
                     CHOOSE i \in DOMAIN requests : requests[i].form = v]
  <2>1. /\ f \in [1..(MaxRequests + 1) -> 1..Len(requests)]
        /\ \A v \in 1..(MaxRequests + 1) : requests[f[v]].form = v
    BY <1>1
  <2> HIDE DEF f
  <2>2. \E x, y \in 1..(MaxRequests + 1) : x # y /\ f[x] = f[y]
    BY <1>1, <2>1, TakenTwice
  <2> QED
    BY <2>1, <2>2
<1>3. NewForms # {} /\ NewForms \subseteq Nat /\ NewForms \subseteq Forms
  BY <1>2 DEF NewForms, Forms
<1>4. \E f \in NewForms : \A g \in NewForms : f <= g
  BY <1>3, LeastNumber
<1> QED
  BY <1>3, <1>4 DEF OpenForm

\* A request leaves, whatever its answer was.
LEMMA RequestGone ==
  ASSUME MatchInv, NEW i \in DOMAIN requests, requests' = RemoveAt(requests, i)
  PROVE  /\ requests' \in Seq([form : Forms, step : {"post", "get"}])
         /\ Len(requests') <= MaxRequests
<1>1. /\ requests \in Seq([form : Forms, step : {"post", "get"}])
      /\ Len(requests) <= MaxRequests
  BY DEF MatchInv, TypeOK
<1>2. /\ requests' \in Seq([form : Forms, step : {"post", "get"}])
      /\ Len(requests') = Len(requests) - 1
  BY <1>1, RemoveAtProperties, ZenonT(60)
<1>3. Len(requests) \in Nat /\ MaxRequests \in Nat
  BY <1>1, LenProperties, MakeMatchingAssumption
<1> QED
  BY <1>1, <1>2, <1>3

\* Every step of the form, the tier screen and the creations.
LEMMA MatchStep == MatchInv /\ [Next]_vars => MatchInv'
<1> SUFFICES ASSUME MatchInv, [Next]_vars PROVE MatchInv'
  OBVIOUS
<1>1. /\ TypeOK /\ FormOnStack /\ Len(requests) <= MaxRequests /\ CleanFormShowsModel
      /\ Len(requests) \in Nat /\ MaxRequests \in Nat
      /\ requests \in Seq([form : Forms, step : {"post", "get"}])
      /\ DOMAIN requests = 1..Len(requests)
      /\ \A f \in Forms : f # 0
  BY LenProperties, MakeMatchingAssumption DEF MatchInv, TypeOK, Forms
<1>2. Initialized \in Model /\ Fresh \in Display /\ Initialized = AsModel(Fresh)
  BY FreshShowsInitialized
<1>3. CASE UNCHANGED vars
  BY <1>1, <1>3 DEF vars, MatchInv, TypeOK, FormOnStack, CleanFormShowsModel
<1>4. CASE OpenForm
  <2>1. /\ screen' = "form" /\ display' = Fresh /\ tabBarHidden' = TRUE
        /\ clean' = (model = Initialized) /\ UNCHANGED <<model, requests>>
    BY <1>4 DEF OpenForm
  <2>2. form' \in Forms
    BY <1>4, NewFormIsNamed
  <2>3. clean' \in BOOLEAN
    BY <2>1
  <2>4. TypeOK'
    BY <1>1, <1>2, <2>1, <2>2, <2>3 DEF TypeOK
  <2>5. CleanFormShowsModel'
    BY <1>2, <2>1, Zenon DEF CleanFormShowsModel
  <2> QED
    BY <1>1, <2>1, <2>2, <2>4, <2>5 DEF MatchInv, FormOnStack
<1>5. CASE PopViewController
  BY <1>1, <1>2, <1>5
     DEF PopViewController, LeaveForm, MatchInv, TypeOK, FormOnStack, CleanFormShowsModel
<1>6. CASE Fill
  BY <1>6, FillStep
<1>7. CASE DidTapMakeMatchingRoom
  <2>1. /\ requests' = Append(requests, [form |-> form, step |-> "post"])
        /\ UNCHANGED <<screen, form, model, display, tabBarHidden, clean>>
        /\ Len(requests) < MaxRequests /\ screen = "form"
    BY <1>7 DEF DidTapMakeMatchingRoom
  <2>2. [form |-> form, step |-> "post"] \in [form : Forms, step : {"post", "get"}]
    BY <1>1, <2>1 DEF FormOnStack, TypeOK
  <2>3. /\ requests' \in Seq([form : Forms, step : {"post", "get"}])
        /\ Len(requests') = Len(requests) + 1
    BY <1>1, <2>1, <2>2, AppendProperties
  <2> QED
    BY <1>1, <2>1, <2>3 DEF MatchInv, TypeOK, FormOnStack, CleanFormShowsModel
<1>8. ASSUME NEW i \in DOMAIN requests, RoomPosted(i) PROVE MatchInv'
  <2>1. /\ requests' = [requests EXCEPT ![i].step = "get"]
        /\ UNCHANGED <<screen, form, model, display, tabBarHidden, clean>>
    BY <1>8 DEF RoomPosted
  <2>2. requests[i] \in [form : Forms, step : {"post", "get"}]
    BY <1>1, ElementOfSeq
  <2>3. /\ requests' \in Seq([form : Forms, step : {"post", "get"}])
        /\ Len(requests') = Len(requests)
    BY <1>1, <2>1, <2>2, ExceptSeq
  <2> QED
    BY <1>1, <2>1, <2>3 DEF MatchInv, TypeOK, FormOnStack, CleanFormShowsModel
<1>9. ASSUME NEW i \in DOMAIN requests, Finish(i) PROVE MatchInv'
  <2>1. /\ requests' = RemoveAt(requests, i) /\ model' = Initialized /\ clean' = FALSE
        /\ UNCHANGED tabBarHidden
    BY <1>9 DEF Finish, LeaveForm
  <2>2. /\ requests' \in Seq([form : Forms, step : {"post", "get"}])
        /\ Len(requests') <= MaxRequests
    BY <2>1, RequestGone, Zenon
  <2>3. requests[i].form # 0
    <3>1. requests[i] \in [form : Forms, step : {"post", "get"}]
      BY <1>1, ElementOfSeq
    <3> QED
      BY <1>1, <3>1
  <2>4. /\ screen' \in {"home", "form", "tier"} /\ form' \in Forms \cup {0}
        /\ display' \in Display /\ (screen' = "home" <=> form' = 0)
    BY <1>1, <1>2, <1>9, <2>3 DEF Finish, LeaveForm, FormOnStack, TypeOK
  <2> QED
    BY <1>1, <1>2, <2>1, <2>2, <2>4 DEF MatchInv, TypeOK, FormOnStack, CleanFormShowsModel
<1>10. ASSUME NEW i \in DOMAIN requests, Fail(i) PROVE MatchInv'
  <2>1. /\ requests' = RemoveAt(requests, i)
        /\ UNCHANGED <<screen, form, model, display, tabBarHidden, clean>>
    BY <1>10 DEF Fail
  <2>2. /\ requests' \in Seq([form : Forms, step : {"post", "get"}])
        /\ Len(requests') <= MaxRequests
    BY <2>1, RequestGone, Zenon
  <2> QED
    BY <1>1, <2>1, <2>2 DEF MatchInv, TypeOK, FormOnStack, CleanFormShowsModel
<1> QED
  BY <1>3, <1>4, <1>5, <1>6, <1>7, <1>8, <1>9, <1>10 DEF Next

LEMMA MatchInvariance == Spec => []MatchInv
BY MatchInit, MatchStep, PTL DEF Spec

\* What the user sees on a clean form is what its confirm button would send
\* (MakeMatchingModel, initialized:25-33).
THEOREM SeenIsSent == Spec => []CleanFormShowsModel
<1>1. MatchInv => CleanFormShowsModel
  BY DEF MatchInv
<1> QED
  BY <1>1, MatchInvariance, PTL

\* No late answer to an earlier form's request takes a form off the stack
\* (didTapMake:189-199).
THEOREM OnlyItsAnswerCloses == Spec => FormClosedByItself
<1>1. ASSUME MatchInv, [Next]_vars
      PROVE  [ form # 0 /\ form' = 0 /\ ~PopViewController =>
                 /\ \E i \in DOMAIN requests :
                      requests[i].form = form /\ requests[i].step = "get"
                 /\ model' = Initialized ]_vars
  <2> SUFFICES ASSUME Next, form # 0, form' = 0, ~PopViewController
               PROVE  /\ \E i \in DOMAIN requests :
                           requests[i].form = form /\ requests[i].step = "get"
                      /\ model' = Initialized
    BY <1>1
  <2>1. ~OpenForm
    BY <1>1 DEF OpenForm, MatchInv, FormOnStack
  <2>2. ~Fill /\ ~DidTapMakeMatchingRoom
    BY DEF Fill, Enter, EditedRoomTitle, ClearRoomTitle, CountUp, CountDown, DidTapGame,
           DidTapVoiceChat, DidTapChangeTierRange, PopTierScreen, DidTapSmallestTier,
           DidTapLargestTier, DidTapMakeMatchingRoom
  <2>3. PICK i \in DOMAIN requests : Finish(i)
    BY <2>1, <2>2 DEF Next, RoomPosted, Fail
  <2> QED
    BY <2>3 DEF Finish, LeaveForm
<1> QED
  BY <1>1, MatchInvariance, PTL DEF Spec, FormClosedByItself
=============================================================================
